---- MODULE Spec2Model ----
(***************************************************************************)
(* Session lifecycle manager and key/credential persistence of the         *)
(* WhatsApp gateway (backend/src/providers/WhatsApp, WppKeyServices,       *)
(* libs/redisStore).                                                       *)
(*                                                                         *)
(* Thirteen specifications over one set of variables:                      *)
(*   SpecKeys  the hybrid key store (Redis hot cache + WppKeys table)      *)
(*   SpecBatch the batches of key writes of keys.set                       *)
(*   Spec      the whaileys provider: registry, connection state machine,  *)
(*             credential debouncer, logout                                *)
(*   SpecJ     the whatsapp-web.js provider: registry and client events    *)
(*   SpecSendW the whaileys registry under connection events, with the     *)
(*             provider calls that go through getWbot                      *)
(*   SpecSendJ the same for the whatsapp-web.js provider                   *)
(*   SpecAck   the status and receipt events of a message and the          *)
(*             handleMessageAck calls they make                            *)
(*   SpecMsgW  the messages.upsert events of the whaileys provider         *)
(*   SpecDupW  the messages.upsert events in which a message comes again   *)
(*   SpecHandleW the handleMessage calls a messages.upsert runs side by    *)
(*             side                                                        *)
(*   SpecMsgJ  the message_create events and the unread backlog of the     *)
(*             whatsapp-web.js provider                                    *)
(*   SpecPurge the purge of a connection's hot keys next to the keys of    *)
(*             another connection                                          *)
(*   SpecLive  the closes and reconnects of both providers, with weak      *)
(*             fairness of the timers and of what runs after them          *)
(***************************************************************************)
EXTENDS Integers, Sequences, FiniteSets, TLC

\* ------------------------------------------------------------------ bounds
MaxHot == 1          \* Redis entries kept at once
MaxRows == 1         \* WppKeys rows kept at once
MaxClients == 3      \* whatsapp-web.js clients created for the connection
MaxSocks == 2        \* whaileys sockets created for the connection
MaxCreds == 2        \* creds.update events of the connection
MaxBatch == 2        \* key writes in one keys.set call
MaxSets == 1         \* keys.set calls
MaxUnread == 1       \* unread messages waiting in the chats
MaxQr == 2           \* distinct scannable codes
MaxStore == 3        \* messages of a chat in the local store
MaxLimit == 3        \* largest limit asked of fetchChatMessages
MaxAckEvents == 4    \* status and receipt events of the message
MaxAckCalls == 2     \* handleMessageAck calls running at once
MaxBacklog == 2      \* unread messages fetched by one syncUnreadMessages
MaxInbound == 1      \* message events of a connection
MaxPurgeKeys == 2    \* hot keys held when a purge runs
MaxDupEvents == 2    \* messages.upsert events in which a message can come again
MaxParallel == 2     \* handleMessage calls running side by side

\* ------------------------------------------------- key store: the universe
ConnIds == {1, 10}
DeviceIds == {1, 2}
HotTypes == {"session", "sender-keys", "sender-key-memory"}
DurableTypes == {"identity-key"}
Types == HotTypes \cup DurableTypes
KeyIds == {"k1", "k2"}
WhatsappId == 1                 \* the connection whose sessions are followed
WrittenIds == {"k1"}          \* the ids written; "k2" is only ever asked for

None == [none |-> TRUE]

\* JavaScript values handed to the store: null (a deletion marker of the
\* signal key store) and objects holding a Buffer with some bytes.
NullVal == [js |-> "null", bytes |-> 0]
BufVal(n) == [js |-> "Buffer", bytes |-> n]
Vals == {NullVal, BufVal(7)}

VARIABLES
  redisClient,   \* libs/redisStore: TRUE when the client was created (REDIS_URL set)
  redis,         \* the Redis keyspace: key -> [value, ttl], ttl the seconds left
  wppKeys,       \* the WppKeys table: <<connectionId, type, keyId>> -> value
  lastSet,       \* the last StoreWppSessionKeys call and the seconds since it
  call           \* the last key-store call: its kind, its type, the stores it
                 \* reached and the stores it changed

VARIABLES
  db,            \* the Whatsapps row of the connection: status, qrcode, session, retries
  notified,      \* the status and qrcode carried by the last "whatsappSession"
                 \* notification
  ret            \* the last call of a provider operation and how it ended

VARIABLES
  ackEvents,     \* the status and receipt events of the message so far, each with
                 \* the level handed to handleMessageAck and where that call stands
  msgAck,        \* the ack column of the message's row
  inb,           \* the last inbound message event: its raw messages, where each
                 \* one fails, and the payloads handed to handleMessage
  hm             \* the handleMessage calls running side by side: the Contacts
                 \* rows, the messages stored, and where each call stands

VARIABLES
  jClient,       \* wwebjs: each created Client: none, starting, qr, ready,
                 \* disconnected, loggedout, destroyed
  jSessions,     \* wwebjs: the client in the sessions array for the id (0: none)
  jHandler,      \* wwebjs: where each client's running event handler stands
  jStarts,       \* wwebjs: StartWhatsAppSession calls that have not reached init yet
  jUnread        \* wwebjs: unread messages in the chats that were not handled yet

VARIABLES
  sock,                 \* whaileys: each created socket: none, connecting, open, closed
  lst,                  \* whaileys: listeners left on each socket: all, noconn
                        \* (no "connection.update"), none
  handler,              \* whaileys: where each socket's close handler stands
  sessions,             \* whaileys: the socket in the sessions map for the id (0: none)
  credsSeq,             \* whaileys: the credential values produced so far; a socket
                        \* changes state.creds only as it emits creds.update, so
                        \* the creds a timer or a pending entry refers to hold the
                        \* value of the event that put them there
  credsDebounceTimers,  \* whaileys: the creds value the armed timer holds (0: no timer)
  pendingCredsSaves,    \* whaileys: the pending creds value (0: no entry)
  inflight,             \* whaileys: values of started saves nobody awaits
  saves,                \* whaileys: saveSessionCreds calls so far
  burst,                \* whaileys: creds.update events since the timer was armed
  flushedBurst,         \* whaileys: the size of the last burst a flush wrote
  sleeping,             \* whaileys: the milliseconds each reconnect branch still sleeps
  logoutPc,             \* whaileys: where the running logout(id) stands
  undisturbed,          \* whaileys: which of "logout" and "close" (the logged-out
                        \* branch) run with no StartWhatsAppSession since they began
  terminal              \* whaileys: one of them returned undisturbed and nobody
                        \* started the session since

keyVars == <<redisClient, redis, wppKeys, lastSet, call>>
wVars == <<sock, lst, handler, sessions, credsSeq, credsDebounceTimers,
           pendingCredsSaves, inflight, saves, burst, flushedBurst, sleeping,
           logoutPc, undisturbed, terminal>>
jVars == <<jClient, jSessions, jHandler, jStarts, jUnread>>
mVars == <<ackEvents, msgAck, inb, hm>>

vars == <<keyVars, db, notified, ret, mVars, jVars, wVars>>

\* ----------------------------------------------------------- libs/redisStore
REDIS_SESSION_TTL == 604800

\* JSON.stringify(value, BufferJSON.replacer): a Buffer becomes a tagged
\* object holding its bytes in base64; null becomes the text null.
JSONstringify(v) ==
  IF v.js = "Buffer" THEN [type |-> "Buffer", data |-> <<"base64", v.bytes>>]
  ELSE [type |-> "null", data |-> <<>>]

\* JSON.parse(text, BufferJSON.reviver): a tagged object becomes a Buffer again.
JSONparse(j) ==
  IF j.type = "Buffer" THEN [js |-> "Buffer", bytes |-> j.data[2]]
  ELSE [js |-> "null", bytes |-> 0]

\* String(n): the decimal digits of a number, as characters
DigitChars == <<"0", "1", "2", "3", "4", "5", "6", "7", "8", "9">>

RECURSIVE Digits(_)
Digits(n) ==
  IF n < 10 THEN <<DigitChars[n + 1]>>
  ELSE Digits(n \div 10) \o <<DigitChars[(n % 10) + 1]>>

\* `wpp:${connectionId}:${deviceId}:${type}:${id}` as a sequence of tokens
\* (numbers digit by digit).
RedisKeyOf(connectionId, deviceId, type, id) ==
  <<"wpp", ":">> \o Digits(connectionId) \o <<":">> \o Digits(deviceId)
    \o <<":", type, ":", id>>

\* a pattern that leaves out the colon after the id
ScanPatternNoColon(sessionId) == <<"wpp", ":">> \o Digits(sessionId)

\* the glob `wpp:${sessionId}:*`: a key matches when it starts with the prefix
ScanPattern(sessionId) == <<"wpp", ":">> \o Digits(sessionId) \o <<":">>

GlobMatch(key, prefix) ==
  /\ Len(key) >= Len(prefix)
  /\ SubSeq(key, 1, Len(prefix)) = prefix

Restrict(f, S) == [x \in S |-> f[x]]

\* redisClient.set without an expiry: the key never expires
setInRedisNoExpiry(key, data) ==
  IF ~redisClient THEN redis
  ELSE [x \in DOMAIN redis \cup {key} |->
          IF x = key THEN [value |-> data, ttl |-> 4 * REDIS_SESSION_TTL]
          ELSE redis[x]]

\* redisClient.setex(key, REDIS_SESSION_TTL, data); nothing without a client
setInRedis(key, data) ==
  IF ~redisClient THEN redis
  ELSE [x \in DOMAIN redis \cup {key} |->
          IF x = key THEN [value |-> data, ttl |-> REDIS_SESSION_TTL]
          ELSE redis[x]]

\* redisClient.get(key): null without a client and for a key Redis does not hold
getFromRedis(key) ==
  IF ~redisClient THEN None
  ELSE IF key \in DOMAIN redis /\ redis[key].ttl > 0 THEN redis[key].value
  ELSE None

\* ------------------------------------------------------------ WppKeyServices
REDIS_KEY_TYPES == {"session", "sender-keys", "sender-key-memory"}

\* a routing test that forgets one of the hot categories
UsesRedisTwoTypes(type) == type \in {"session", "sender-keys"}

\* a notification that leaves the code out
SnapNoCode(row) == [status |-> row.status, qrcode |-> 0]

\* the code the library issues when q is the stored one (0: none): codes are
\* numbered in the order they are issued, starting over after the last
NextQr(q) == IF q < MaxQr THEN q + 1 ELSE 1

\* io.emit("whatsappSession", {action: "update", session}): what observers
\* see of the record
Snap(row) == [status |-> row.status, qrcode |-> row.qrcode]

\* REDIS_KEY_TYPES.includes(type)
UsesRedis(type) == type \in REDIS_KEY_TYPES

\* WppKey.findOne({ where: { connectionId, type, keyId } })
FindOneWppKey(connectionId, deviceId, type, id) ==
  IF <<connectionId, type, id>> \in DOMAIN wppKeys
  THEN wppKeys[<<connectionId, type, id>>] ELSE None

\* an insert that leaves an existing row as it is
UpsertWppKeyInsertOnly(connectionId, deviceId, type, id, valueJson) ==
  [x \in DOMAIN wppKeys \cup {<<connectionId, type, id>>} |->
     IF x \in DOMAIN wppKeys THEN wppKeys[x] ELSE valueJson]

\* WppKey.upsert({ connectionId, type, keyId, value }) on the unique index
\* (connectionId, type, keyId)
UpsertWppKey(connectionId, deviceId, type, id, valueJson) ==
  [x \in DOMAIN wppKeys \cup {<<connectionId, type, id>>} |->
     IF x = <<connectionId, type, id>> THEN valueJson ELSE wppKeys[x]]

\* the mapping GetWppSessionKeys returns: the ids that exist, each parsed
GetWppSessionKeys(connectionId, deviceId, type, ids) ==
  IF UsesRedis(type)
  THEN [id \in {i \in ids :
                  getFromRedis(RedisKeyOf(connectionId, deviceId, type, i)) # None} |->
          JSONparse(getFromRedis(RedisKeyOf(connectionId, deviceId, type, id)))]
  ELSE [id \in {i \in ids : FindOneWppKey(connectionId, deviceId, type, i) # None} |->
          JSONparse(FindOneWppKey(connectionId, deviceId, type, id))]

\* the stores whose content a call changed
Changed(newRedis, newWppKeys) ==
  (IF newRedis # redis THEN {"redis"} ELSE {})
    \cup (IF newWppKeys # wppKeys THEN {"db"} ELSE {})

\* StoreWppSessionKeys({connectionId, deviceId, type, id, value})
StoreWppSessionKeys(connectionId, deviceId, type, id, value) ==
  /\ IF UsesRedis(type)
     THEN /\ redis' = setInRedis(RedisKeyOf(connectionId, deviceId, type, id),
                                 JSONstringify(value))
          /\ wppKeys' = wppKeys
          /\ call' = [op |-> "set", type |-> type, touched |-> {"redis"},
                      wrote |-> Changed(redis', wppKeys')]
     ELSE /\ wppKeys' = UpsertWppKey(connectionId, deviceId, type, id,
                                     JSONstringify(value))
          /\ redis' = redis
          /\ call' = [op |-> "set", type |-> type, touched |-> {"db"},
                      wrote |-> Changed(redis', wppKeys')]
  /\ Cardinality(DOMAIN redis') <= MaxHot
  /\ Cardinality(DOMAIN wppKeys') <= MaxRows
  /\ lastSet' = [connectionId |-> connectionId, deviceId |-> deviceId,
                 type |-> type, id |-> id, value |-> value, elapsed |-> 0]
  /\ UNCHANGED <<redisClient, db, jVars, wVars>>
  /\ UNCHANGED notified
  /\ UNCHANGED <<ret, mVars>>

\* a GetWppSessionKeys call: it reads from one store, and changes nothing
GetKeys(connectionId, deviceId, type, ids) ==
  /\ call' = [op |-> "get", type |-> type,
              touched |-> IF UsesRedis(type) THEN {"redis"} ELSE {"db"},
              wrote |-> {}]
  /\ UNCHANGED <<redisClient, redis, wppKeys, lastSet, db, jVars, wVars>>
  /\ UNCHANGED notified
  /\ UNCHANGED <<ret, mVars>>

\* time passes, half the cache expiry at a time: every key has less time to
\* live, and Redis drops a key whose time is up
TickSeconds == REDIS_SESSION_TTL \div 2

Tick ==
  /\ lastSet # None
  /\ lastSet.elapsed < REDIS_SESSION_TTL
  /\ lastSet' = [lastSet EXCEPT !.elapsed = @ + TickSeconds]
  /\ redis' = [k \in {x \in DOMAIN redis : redis[x].ttl > TickSeconds} |->
                 [redis[k] EXCEPT !.ttl = @ - TickSeconds]]
  /\ UNCHANGED <<redisClient, wppKeys, call, db, jVars, wVars>>
  /\ UNCHANGED notified
  /\ UNCHANGED <<ret, mVars>>

\* the connection row before any session was started
InitDb ==
  /\ db = [status |-> "DISCONNECTED", qrcode |-> 0, session |-> 0, retries |-> 0]
  /\ notified = [status |-> "DISCONNECTED", qrcode |-> 0]
  /\ ret = [op |-> "none"]
  /\ ackEvents = <<>>
  /\ msgAck = 0
  /\ inb = [event |-> "none", kind |-> "", msgs |-> <<>>, fails |-> <<>>,
            valid |-> {}, handed |-> {}, n |-> 0, log |-> <<>>, cached |-> <<>>]
  /\ hm = [contacts |-> <<>>, messages |-> {}, unique |-> FALSE,
           number |-> <<>>, pc |-> <<>>, found |-> <<>>, known |-> <<>>]

InitJ0 ==
  /\ jClient = [c \in 1..MaxClients |-> "none"]
  /\ jSessions = 0
  /\ jHandler = [c \in 1..MaxClients |-> "idle"]
  /\ jStarts = 0
  /\ jUnread = 0

InitW0 ==
  /\ sock = [s \in 1..MaxSocks |-> "none"]
  /\ lst = [s \in 1..MaxSocks |-> "none"]
  /\ handler = [s \in 1..MaxSocks |-> "idle"]
  /\ sessions = 0
  /\ credsSeq = 0
  /\ credsDebounceTimers = 0
  /\ pendingCredsSaves = 0
  /\ inflight = {}
  /\ saves = 0
  /\ burst = 0
  /\ flushedBurst = 0
  /\ sleeping = [s \in 1..MaxSocks |-> 0]
  /\ logoutPc = "idle"
  /\ undisturbed = {}
  /\ terminal = FALSE

InitKeys ==
  /\ InitDb /\ InitJ0 /\ InitW0
  /\ redisClient \in BOOLEAN
  /\ redis = <<>>
  /\ wppKeys = <<>>
  /\ lastSet = None
  /\ call = [op |-> "none", type |-> "", touched |-> {}, wrote |-> {}]

NextKeys ==
  \/ \E c \in ConnIds, d \in DeviceIds, t \in Types, i \in WrittenIds, v \in Vals :
       StoreWppSessionKeys(c, d, t, i, v)
  \/ \E c \in ConnIds, d \in DeviceIds, t \in Types, ids \in {KeyIds} :
       GetKeys(c, d, t, ids)
  \/ Tick

SpecKeys == InitKeys /\ [][NextKeys]_vars

\* ------------------------------------------- useSessionAuthState: keys.set
\* the (category, id, value) entries of a SignalDataSet, in Object.entries
\* order; a category holds an id once
Writes == [type : Types, id : WrittenIds, value : Vals]
Batches ==
  {b \in UNION {[1..n -> Writes] : n \in 1..MaxBatch} :
     \A i, j \in DOMAIN b : (b[i].type = b[j].type /\ b[i].id = b[j].id) => i = j}

\* a write whose failure undoes what the batch stored before it
StoreIntoAborting(st, connectionId, deviceId, w, fails) ==
  IF fails THEN [redis |-> redis, wppKeys |-> wppKeys]
  ELSE IF UsesRedis(w.type)
  THEN IF ~redisClient THEN st
       ELSE [st EXCEPT !.redis =
               [x \in DOMAIN @ \cup {RedisKeyOf(connectionId, deviceId, w.type, w.id)} |->
                  IF x = RedisKeyOf(connectionId, deviceId, w.type, w.id)
                  THEN [value |-> JSONstringify(w.value), ttl |-> REDIS_SESSION_TTL]
                  ELSE @[x]]]
  ELSE [st EXCEPT !.wppKeys =
          [x \in DOMAIN @ \cup {<<connectionId, w.type, w.id>>} |->
             IF x = <<connectionId, w.type, w.id>> THEN JSONstringify(w.value) ELSE @[x]]]

\* one StoreWppSessionKeys promise of the batch on the stores st: setex or
\* upsert; a failure is caught and logged where it happens and stores nothing
StoreInto(st, connectionId, deviceId, w, fails) ==
  IF fails THEN st
  ELSE IF UsesRedis(w.type)
  THEN IF ~redisClient THEN st
       ELSE [st EXCEPT !.redis =
               [x \in DOMAIN @ \cup {RedisKeyOf(connectionId, deviceId, w.type, w.id)} |->
                  IF x = RedisKeyOf(connectionId, deviceId, w.type, w.id)
                  THEN [value |-> JSONstringify(w.value), ttl |-> REDIS_SESSION_TTL]
                  ELSE @[x]]]
  ELSE [st EXCEPT !.wppKeys =
          [x \in DOMAIN @ \cup {<<connectionId, w.type, w.id>>} |->
             IF x = <<connectionId, w.type, w.id>> THEN JSONstringify(w.value) ELSE @[x]]]

\* the promises pushed by the forEach, each run to its end
RECURSIVE StoreAll(_, _, _, _, _, _)
StoreAll(st, connectionId, deviceId, b, failed, i) ==
  IF i > Len(b) THEN st
  ELSE StoreAll(StoreInto(st, connectionId, deviceId, b[i], i \in failed),
                connectionId, deviceId, b, failed, i + 1)

\* how a StoreWppSessionKeys promise settles: both stores catch their error
StorePromise(fails) == IF fails THEN "resolved" ELSE "resolved"

\* how keys.set settles: Promise.all rejects with a rejected promise, and the
\* try/catch around it swallows that
KeysSetSettles(b, failed) ==
  IF \E i \in DOMAIN b : StorePromise(i \in failed) = "rejected"
  THEN "resolved" ELSE "resolved"

\* the keys.set calls made so far
SetsSoFar == IF call.op = "batch" THEN call.n ELSE 0

\* keys.set(data) of a socket of the connection, some of its writes failing
KeysSet(connectionId, deviceId, b, failed) ==
  /\ SetsSoFar < MaxSets
  /\ redis' = StoreAll([redis |-> redis, wppKeys |-> wppKeys],
                       connectionId, deviceId, b, failed, 1).redis
  /\ wppKeys' = StoreAll([redis |-> redis, wppKeys |-> wppKeys],
                         connectionId, deviceId, b, failed, 1).wppKeys
  /\ Cardinality(DOMAIN redis') <= MaxHot
  /\ Cardinality(DOMAIN wppKeys') <= MaxRows
  /\ call' = [op |-> "batch", type |-> "", touched |-> {}, wrote |-> {},
              connectionId |-> connectionId, deviceId |-> deviceId,
              writes |-> b, failed |-> failed, n |-> SetsSoFar + 1,
              result |-> KeysSetSettles(b, failed)]
  /\ UNCHANGED <<redisClient, lastSet, db, jVars, wVars>>
  /\ UNCHANGED notified
  /\ UNCHANGED <<ret, mVars>>

\* deviceId is jidDecode(creds.me.id).device || 1; at most one write fails
NextBatch ==
  \E b \in Batches :
    \E failed \in {{}} \cup {{i} : i \in DOMAIN b} : KeysSet(WhatsappId, 1, b, failed)

SpecBatch == InitKeys /\ [][NextBatch]_vars

\* --------------------------------------------- whatsapp-web.js provider
JClients == 1..MaxClients
JLive == {"starting", "qr", "ready"}

\* new Client(...): the next client not created yet
JFresh == CHOOSE c \in JClients : jClient[c] = "none" /\ \A x \in 1..(c - 1) : jClient[x] # "none"

\* removeSession(whatsappId) followed by new Client: the registered client, if
\* any, is destroyed and spliced out; the new client is not registered yet
JInitBody ==
  /\ \E c \in JClients : jClient[c] = "none"
  /\ jClient' = [c \in JClients |->
                   IF c = JFresh THEN "starting"
                   ELSE IF c = jSessions THEN "destroyed"
                   ELSE jClient[c]]
  /\ jSessions' = 0

\* StartWhatsAppSession: status OPENING, then init
JStartSession ==
  /\ jStarts + Cardinality({c \in JClients : jClient[c] # "none"}) < MaxClients
  /\ db' = [db EXCEPT !.status = "OPENING"]
  /\ notified' = Snap(db')
  /\ jStarts' = jStarts + 1
  /\ UNCHANGED <<jClient, jSessions, jHandler, keyVars, wVars>>
  /\ UNCHANGED jUnread
  /\ UNCHANGED <<ret, mVars>>

\* init(whatsapp), called by StartWhatsAppSession
JInit ==
  /\ jStarts > 0
  /\ jStarts' = jStarts - 1
  /\ JInitBody
  /\ UNCHANGED <<db, jHandler, keyVars, wVars>>
  /\ UNCHANGED notified
  /\ UNCHANGED jUnread
  /\ UNCHANGED <<ret, mVars>>

\* removeSession(whatsappId), called from outside
JRemoveSession ==
  /\ jSessions # 0
  /\ jClient' = [jClient EXCEPT ![jSessions] = "destroyed"]
  /\ jSessions' = 0
  /\ UNCHANGED <<db, jHandler, jStarts, keyVars, wVars>>
  /\ UNCHANGED notified
  /\ UNCHANGED jUnread
  /\ UNCHANGED <<ret, mVars>>

\* "qr": the code and the status are written
JQr(c) ==
  /\ jClient[c] \in {"starting", "qr"} /\ jHandler[c] = "idle"
  /\ db' = [db EXCEPT !.qrcode = NextQr(db.qrcode), !.status = "qrcode", !.retries = 0]
  /\ jClient' = [jClient EXCEPT ![c] = "qr"]
  /\ jHandler' = [jHandler EXCEPT ![c] = "qr"]
  /\ UNCHANGED <<jSessions, jStarts, keyVars, wVars>>
  /\ UNCHANGED notified
  /\ UNCHANGED jUnread
  /\ UNCHANGED <<ret, mVars>>

\* "qr", after the write: the client is pushed unless the id has an entry
JQrRegister(c) ==
  /\ jHandler[c] = "qr"
  /\ jSessions' = IF jSessions = 0 THEN c ELSE jSessions
  /\ jHandler' = [jHandler EXCEPT ![c] = "idle"]
  /\ notified' = Snap(db)
  /\ UNCHANGED <<db, jClient, jStarts, keyVars, wVars>>
  /\ UNCHANGED jUnread
  /\ UNCHANGED <<ret, mVars>>

\* "auth_failure": above the threshold the session is wiped and retries reset
JAuthFailure(c) ==
  /\ jClient[c] \in {"starting", "qr"} /\ jHandler[c] = "idle"
  /\ db' = IF db.retries > 1 THEN [db EXCEPT !.session = 0, !.retries = 0] ELSE db
  /\ jHandler' = [jHandler EXCEPT ![c] = IF db.retries > 1 THEN "auth_wiped" ELSE "auth"]
  /\ UNCHANGED <<jClient, jSessions, jStarts, keyVars, wVars>>
  /\ UNCHANGED notified
  /\ UNCHANGED jUnread
  /\ UNCHANGED <<ret, mVars>>

\* "auth_failure", second write: DISCONNECTED and retries + 1
JAuthFailureUpdate(c) ==
  /\ jHandler[c] \in {"auth", "auth_wiped"}
  /\ db' = [db EXCEPT !.status = "DISCONNECTED", !.retries = @ + 1]
  /\ notified' = Snap(db')
  /\ jHandler' = [jHandler EXCEPT ![c] = "idle"]
  /\ UNCHANGED <<jClient, jSessions, jStarts, keyVars, wVars>>
  /\ UNCHANGED jUnread
  /\ UNCHANGED <<ret, mVars>>

\* "ready": CONNECTED is written
JReady(c) ==
  /\ jClient[c] \in {"starting", "qr"} /\ jHandler[c] = "idle"
  /\ db' = [db EXCEPT !.status = "CONNECTED", !.qrcode = 0, !.retries = 0]
  /\ jClient' = [jClient EXCEPT ![c] = "ready"]
  /\ jHandler' = [jHandler EXCEPT ![c] = "ready"]
  /\ UNCHANGED <<jSessions, jStarts, keyVars, wVars>>
  /\ UNCHANGED notified
  /\ UNCHANGED jUnread
  /\ UNCHANGED <<ret, mVars>>

\* "ready", after the write: the notification, then the client is pushed
\* unless the id has an entry
JReadyRegister(c) ==
  /\ jHandler[c] = "ready"
  /\ jSessions' = IF jSessions = 0 THEN c ELSE jSessions
  /\ jHandler' = [jHandler EXCEPT ![c] = "sync"]
  /\ notified' = Snap(db)
  /\ UNCHANGED <<db, jClient, jStarts, keyVars, wVars>>
  /\ UNCHANGED jUnread
  /\ UNCHANGED <<ret, mVars>>

\* "ready", last: syncUnreadMessages hands every unread message over
JSyncUnread(c) ==
  /\ jHandler[c] = "sync"
  /\ jUnread' = 0
  /\ jHandler' = [jHandler EXCEPT ![c] = "idle"]
  /\ UNCHANGED <<db, notified, jClient, jSessions, jStarts, keyVars, wVars>>
  /\ UNCHANGED <<ret, mVars>>

\* a message reaches the account while no client of the connection is ready
JMessageAway ==
  /\ \A c \in JClients : jClient[c] # "ready"
  /\ jUnread < MaxUnread
  /\ jUnread' = jUnread + 1
  /\ UNCHANGED <<db, notified, jClient, jSessions, jHandler, jStarts, keyVars, wVars>>
  /\ UNCHANGED <<ret, mVars>>

\* logout(sessionId): getWbot, then wbot.logout()
JLogout ==
  /\ jSessions # 0
  /\ jClient[jSessions] \in JLive
  /\ jClient' = [jClient EXCEPT ![jSessions] = "loggedout"]
  /\ UNCHANGED <<db, jSessions, jHandler, jStarts, keyVars, wVars>>
  /\ UNCHANGED notified
  /\ UNCHANGED jUnread
  /\ UNCHANGED <<ret, mVars>>

\* "disconnected": OPENING and an empty session are written, then the handler
\* waits two seconds
JDisconnected(c) ==
  /\ jClient[c] \in {"ready", "loggedout"} /\ jHandler[c] = "idle"
  /\ db' = [db EXCEPT !.status = "OPENING", !.session = 0]
  /\ notified' = Snap(db')
  /\ jClient' = [jClient EXCEPT ![c] = "disconnected"]
  /\ jHandler' = [jHandler EXCEPT ![c] = "sleep"]
  /\ UNCHANGED <<jSessions, jStarts, keyVars, wVars>>
  /\ UNCHANGED jUnread
  /\ UNCHANGED <<ret, mVars>>

\* "disconnected", after the two seconds: init(whatsapp)
JReconnect(c) ==
  /\ jHandler[c] = "sleep"
  /\ JInitBody
  /\ jHandler' = [jHandler EXCEPT ![c] = "idle"]
  /\ UNCHANGED <<db, jStarts, keyVars, wVars>>
  /\ UNCHANGED notified
  /\ UNCHANGED jUnread
  /\ UNCHANGED <<ret, mVars>>

\* how a call ends: with a thrown error or with a returned value
Throw(message) == [threw |-> TRUE, message |-> message]
Value(v) == [threw |-> FALSE, value |-> v]

\* what the network answers to a lookup of a number
Lookups == {"exists", "absent", "error"}

\* CheckIsValidContact around the provider's checkNumber result r; "" is a
\* normal return
CheckIsValidContact(r) ==
  IF r.threw
    THEN IF r.message = "invalidNumber" THEN "ERR_WAPP_INVALID_CONTACT"
         ELSE "ERR_WAPP_CHECK_CONTACT"
  ELSE IF r.value = "" THEN "ERR_WAPP_INVALID_CONTACT"
  ELSE ""

\* checkNumber of the whatsapp-web.js provider: validNumber?.user || ""
JcheckNumber(net) ==
  IF jSessions = 0 THEN Throw("ERR_WAPP_NOT_INITIALIZED")
  ELSE IF net = "error" THEN Throw("network")
  ELSE IF net = "absent" THEN Value("")
  ELSE Value("user")

\* a lookup reaches the network only through a ready client
JNet(net) == IF jSessions # 0 /\ jClient[jSessions] = "ready" THEN net ELSE "error"

JCheckContact(net) ==
  /\ ret' = [op |-> "CheckIsValidContact", net |-> JNet(net),
             inner |-> JcheckNumber(JNet(net)),
             error |-> CheckIsValidContact(JcheckNumber(JNet(net)))]
  /\ ret' # ret
  /\ UNCHANGED <<db, notified, mVars, jVars, keyVars, wVars>>

\* the ack levels whatsapp-web.js reports on a message it has just sent:
\* ACK_PENDING and ACK_SERVER
SentAcks == {0, 1}

\* mapMessageAck: ackMap[wbotAck] || 0
mapMessageAck(wbotAck) == IF wbotAck \in 0..4 THEN wbotAck ELSE 0

\* sendMessage / sendMedia of the whatsapp-web.js provider: getWbot, then
\* wbot.sendMessage and convertToProviderMessage
JSend(op, wbotAck) ==
  /\ ret' = IF jSessions = 0
              THEN [op |-> op, error |-> "ERR_WAPP_NOT_INITIALIZED", sent |-> FALSE]
            ELSE IF jClient[jSessions] # "ready"
              THEN [op |-> op, error |-> "library", sent |-> FALSE]
            ELSE [op |-> op, error |-> "", sent |-> TRUE, fromMe |-> TRUE,
                  ack |-> mapMessageAck(wbotAck)]
  /\ ret' # ret
  /\ UNCHANGED <<db, notified, mVars, jVars, keyVars, wVars>>

InitJ ==
  /\ InitDb /\ InitJ0 /\ InitW0
  /\ redisClient = TRUE /\ redis = <<>> /\ wppKeys = <<>> /\ lastSet = None
  /\ call = [op |-> "none", type |-> "", touched |-> {}, wrote |-> {}]

NextJ ==
  \/ JStartSession
  \/ JInit
  \/ JRemoveSession
  \/ JLogout
  \/ JMessageAway
  \/ \E c \in JClients :
       \/ JSyncUnread(c)
       \/ JQr(c)
       \/ JQrRegister(c)
       \/ JAuthFailure(c)
       \/ JAuthFailureUpdate(c)
       \/ JReady(c)
       \/ JReadyRegister(c)
       \/ JDisconnected(c)
       \/ JReconnect(c)

SpecJ == InitJ /\ [][NextJ]_vars

\* the session events that open and close the registry entry, and the sends
NextSendJ ==
  \/ JStartSession
  \/ JInit
  \/ JRemoveSession
  \/ \E op \in {"sendMessage", "sendMedia"}, a \in SentAcks : JSend(op, a)
  \/ \E net \in Lookups : JCheckContact(net)
  \/ \E c \in JClients :
       \/ JQr(c)
       \/ JQrRegister(c)
       \/ JReady(c)
       \/ JReadyRegister(c)
       \/ JSyncUnread(c)
       \/ JDisconnected(c)
       \/ JReconnect(c)

SpecSendJ == InitJ /\ [][NextSendJ]_vars

\* ------------------------------------------------------ whaileys provider
Socks == 1..MaxSocks
WLive == {"connecting", "open"}
ReconnectDelayMs == 3000      \* await sleep(3000)
TickMs == 1000                \* the step in which time is counted

saveSessionCredsNothing(row, v) == row

\* whatsapp.update({session: JSON.stringify(creds), status: "CONNECTED", qrcode: ""})
saveSessionCreds(row, v) ==
  [row EXCEPT !.session = v, !.status = "CONNECTED", !.qrcode = 0]

\* SCAN MATCH wpp:<sessionId>:* and DEL of what it finds
clearSessionKeys(sessionId) ==
  IF ~redisClient THEN redis
  ELSE Restrict(redis, {k \in DOMAIN redis : ~GlobMatch(k, ScanPattern(sessionId))})

\* the row after flushPendingCredsSave's awaited write
Flushed(row) ==
  IF pendingCredsSaves # 0 THEN saveSessionCreds(row, pendingCredsSaves) ELSE row

\* a flush that clears the timer and leaves the pending value recorded
flushPendingCredsSaveKeepsPending ==
  /\ credsDebounceTimers' = 0
  /\ pendingCredsSaves' = pendingCredsSaves
  /\ saves' = IF pendingCredsSaves # 0 THEN saves + 1 ELSE saves
  /\ flushedBurst' = IF pendingCredsSaves # 0 THEN burst ELSE flushedBurst
  /\ burst' = 0

\* flushPendingCredsSave: the timer is cleared, the pending value is saved
flushPendingCredsSave ==
  /\ credsDebounceTimers' = 0
  /\ pendingCredsSaves' = 0
  /\ saves' = IF pendingCredsSaves # 0 THEN saves + 1 ELSE saves
  /\ flushedBurst' = IF pendingCredsSaves # 0 THEN burst ELSE flushedBurst
  /\ burst' = 0

\* a logout or a logged-out close returns: terminal unless the session was
\* started again while it ran
Returned(op) ==
  /\ terminal' = (terminal \/ op \in undisturbed)
  /\ undisturbed' = undisturbed \ {op}

NoCreds == UNCHANGED <<credsDebounceTimers, pendingCredsSaves, saves, burst, flushedBurst>>

\* makeWASocket: the next socket not created yet
WFresh == CHOOSE s \in Socks : sock[s] = "none" /\ \A x \in 1..(s - 1) : sock[x] # "none"

\* an init whose assertUnique leaves the old socket and its listeners alone
InitSocketListenerKept ==
  /\ \E s \in Socks : sock[s] = "none"
  /\ sock' = [sock EXCEPT ![WFresh] = "connecting"]
  /\ lst' = [lst EXCEPT ![WFresh] = "all"]
  /\ sessions' = WFresh

\* init after its awaits: assertUnique, makeWASocket, sessions.set, listeners
InitSocket ==
  /\ \E s \in Socks : sock[s] = "none"
  /\ sock' = [s \in Socks |->
                IF s = WFresh THEN "connecting"
                ELSE IF s = sessions THEN "closed"
                ELSE sock[s]]
  /\ lst' = [s \in Socks |->
               IF s = WFresh THEN "all"
               ELSE IF s = sessions /\ lst[s] = "all" THEN "noconn"
               ELSE lst[s]]
  /\ sessions' = WFresh

\* removeSession up to the awaited ws.close(): flush, listeners off, end
RemoveSessionEnd ==
  /\ flushPendingCredsSave
  /\ IF sessions # 0
       THEN /\ lst' = [lst EXCEPT ![sessions] = "none"]
            /\ sock' = [sock EXCEPT ![sessions] = "closed"]
       ELSE UNCHANGED <<lst, sock>>
  /\ UNCHANGED sessions

\* StartWhatsAppSession: status OPENING, then init
WStartSession ==
  /\ InitSocket
  /\ db' = [db EXCEPT !.status = "OPENING"]
  /\ notified' = Snap(db')
  /\ undisturbed' = {}
  /\ terminal' = FALSE
  /\ NoCreds
  /\ UNCHANGED <<handler, credsSeq, inflight, logoutPc, keyVars, jVars, sleeping>>
  /\ UNCHANGED <<ret, mVars>>

\* connection.update with a qr
WQr(s) ==
  /\ sock[s] = "connecting" /\ lst[s] = "all"
  /\ db' = [db EXCEPT !.qrcode = NextQr(db.qrcode), !.status = "qrcode"]
  /\ notified' = Snap(db')
  /\ UNCHANGED <<wVars, keyVars, jVars>>
  /\ UNCHANGED <<ret, mVars>>

\* connection.update "open": flush, then CONNECTED
WOpen(s) ==
  /\ sock[s] = "connecting"
  /\ sock' = [sock EXCEPT ![s] = "open"]
  /\ IF lst[s] = "all"
       THEN /\ flushPendingCredsSave
            /\ db' = [Flushed(db) EXCEPT !.status = "CONNECTED", !.qrcode = 0, !.retries = 0]
            /\ notified' = Snap(db')
       ELSE NoCreds /\ UNCHANGED <<db, notified>>
  /\ UNCHANGED <<lst, handler, sessions, credsSeq, inflight, logoutPc, undisturbed, terminal,
                 keyVars, jVars, sleeping>>
  /\ UNCHANGED <<ret, mVars>>

\* creds.update: the socket changed state.creds; debouncedSaveCreds arms the timer
WCredsUpdate(s) ==
  /\ sock[s] \in WLive
  /\ credsSeq < MaxCreds
  /\ credsSeq' = credsSeq + 1
  /\ IF lst[s] # "none"
       THEN /\ credsDebounceTimers' = credsSeq + 1
            /\ pendingCredsSaves' = credsSeq + 1
            /\ burst' = burst + 1
            /\ UNCHANGED <<saves, flushedBurst>>
       ELSE NoCreds
  /\ UNCHANGED <<sock, lst, handler, sessions, inflight, logoutPc, undisturbed, terminal, db,
                 keyVars, jVars, sleeping>>
  /\ UNCHANGED notified
  /\ UNCHANGED <<ret, mVars>>

\* the debounce timer fires: saveSessionCreds is called and not awaited
WTimerFire ==
  /\ credsDebounceTimers # 0
  /\ credsDebounceTimers' = 0
  /\ pendingCredsSaves' = 0
  /\ inflight' = inflight \cup {credsDebounceTimers}
  /\ saves' = saves + 1
  /\ burst' = 0
  /\ UNCHANGED <<sock, lst, handler, sessions, credsSeq, flushedBurst, logoutPc,
                 undisturbed, terminal, db, keyVars, jVars, sleeping>>
  /\ UNCHANGED notified
  /\ UNCHANGED <<ret, mVars>>

\* the write of a save nobody awaits reaches the table
WSaveLands(v) ==
  /\ v \in inflight
  /\ inflight' = inflight \ {v}
  /\ db' = saveSessionCreds(db, v)
  /\ NoCreds
  /\ UNCHANGED <<sock, lst, handler, sessions, credsSeq, logoutPc, undisturbed, terminal,
                 keyVars, jVars, sleeping>>
  /\ UNCHANGED notified
  /\ UNCHANGED <<ret, mVars>>

\* a close handler that goes on without sleeping
SleepAfterCloseNone(listening, reason) == 0

\* the sleep the close handler starts: sleep(3000) in the reconnect branch
SleepAfterClose(listening, reason) ==
  IF listening /\ reason # "loggedOut" THEN ReconnectDelayMs ELSE 0

\* connection.update "close" from the server, up to the handler's first wait
WClose(s, reason) ==
  /\ sock[s] \in WLive
  /\ sock' = [sock EXCEPT ![s] = "closed"]
  /\ IF lst[s] # "all" THEN NoCreds /\ UNCHANGED <<db, handler>>
     ELSE IF reason = "loggedOut"
       THEN /\ db' = [db EXCEPT !.status = "DISCONNECTED", !.qrcode = 0, !.retries = 0]
            /\ handler' = [handler EXCEPT ![s] = "lo_rm"]
            /\ NoCreds
       ELSE /\ flushPendingCredsSave
            /\ db' = [Flushed(db) EXCEPT !.status = "OPENING"]
            /\ handler' = [handler EXCEPT ![s] = "sleep"]
  /\ notified' = IF lst[s] # "all" THEN notified ELSE Snap(db')
  /\ sleeping' = [sleeping EXCEPT ![s] = SleepAfterClose(lst[s] = "all", reason)]
  /\ undisturbed' = IF lst[s] = "all" /\ reason = "loggedOut"
                      THEN undisturbed \cup {"close"} ELSE undisturbed
  /\ UNCHANGED terminal
  /\ UNCHANGED <<lst, sessions, credsSeq, inflight, logoutPc, keyVars, jVars>>
  /\ UNCHANGED <<ret, mVars>>

\* a sleep whose timer never runs out
WSleepTickStalls(s) ==
  /\ handler[s] = "sleep"
  /\ sleeping[s] > 0
  /\ UNCHANGED vars

\* time passes for a sleeping reconnect branch
WSleepTick(s) ==
  /\ handler[s] = "sleep"
  /\ sleeping[s] > 0
  /\ sleeping' = [sleeping EXCEPT ![s] = @ - TickMs]
  /\ NoCreds
  /\ UNCHANGED <<sock, lst, handler, sessions, credsSeq, inflight, logoutPc, undisturbed,
                 terminal, db, keyVars, jVars>>
  /\ UNCHANGED notified
  /\ UNCHANGED <<ret, mVars>>

\* the reconnect branch after its three seconds: init(whatsapp)
WReconnect(s) ==
  /\ handler[s] = "sleep"
  /\ sleeping[s] = 0
  /\ UNCHANGED sleeping
  /\ InitSocket
  /\ handler' = [handler EXCEPT ![s] = "idle"]
  /\ NoCreds
  /\ UNCHANGED <<credsSeq, inflight, logoutPc, undisturbed, terminal, db, keyVars, jVars>>
  /\ UNCHANGED notified
  /\ UNCHANGED <<ret, mVars>>

\* the "Intentional Logout" branch: clearSessionKeys
WIntentionalPurge(s) ==
  /\ handler[s] = "il_purge"
  /\ redis' = clearSessionKeys(WhatsappId)
  /\ handler' = [handler EXCEPT ![s] = "il_rm"]
  /\ NoCreds
  /\ UNCHANGED <<sock, lst, sessions, credsSeq, inflight, logoutPc, undisturbed, terminal, db,
                 redisClient, wppKeys, lastSet, call, jVars, sleeping>>
  /\ UNCHANGED notified
  /\ UNCHANGED <<ret, mVars>>

\* both logout branches: removeSession up to ws.close()
WHandlerRemove(s) ==
  /\ handler[s] \in {"lo_rm", "il_rm"}
  /\ RemoveSessionEnd
  /\ db' = Flushed(db)
  /\ handler' = [handler EXCEPT ![s] =
                   IF sessions = 0 THEN "idle"
                   ELSE IF handler[s] = "lo_rm" THEN "lo_del" ELSE "il_del"]
  /\ IF sessions = 0 /\ handler[s] = "lo_rm" THEN Returned("close")
     ELSE UNCHANGED <<undisturbed, terminal>>
  /\ UNCHANGED <<credsSeq, inflight, logoutPc, keyVars, jVars, sleeping>>
  /\ UNCHANGED notified
  /\ UNCHANGED <<ret, mVars>>

\* both logout branches: removeSession's sessions.delete, then return
WHandlerDelete(s) ==
  /\ handler[s] \in {"lo_del", "il_del"}
  /\ sessions' = 0
  /\ handler' = [handler EXCEPT ![s] = "idle"]
  /\ IF handler[s] = "lo_del" THEN Returned("close")
     ELSE UNCHANGED <<undisturbed, terminal>>
  /\ NoCreds
  /\ UNCHANGED <<sock, lst, credsSeq, inflight, logoutPc, db, keyVars, jVars, sleeping>>
  /\ UNCHANGED notified
  /\ UNCHANGED <<ret, mVars>>

\* logout(sessionId): flush, then wbot.logout(), whose end() emits the
\* "Intentional Logout" close
WLogout ==
  /\ logoutPc = "idle"
  /\ flushPendingCredsSave
  /\ IF sessions # 0 /\ sock[sessions] \in WLive
       THEN /\ sock' = [sock EXCEPT ![sessions] = "closed"]
            /\ IF lst[sessions] = "all"
                 THEN /\ db' = [Flushed(db) EXCEPT !.status = "DISCONNECTED",
                                                   !.qrcode = 0, !.retries = 0]
                      /\ handler' = [handler EXCEPT ![sessions] = "il_purge"]
                      /\ notified' = Snap(db')
                 ELSE db' = Flushed(db) /\ UNCHANGED <<handler, notified>>
       ELSE db' = Flushed(db) /\ UNCHANGED <<sock, handler, notified>>
  /\ logoutPc' = "rm"
  /\ undisturbed' = undisturbed \cup {"logout"}
  /\ UNCHANGED terminal
  /\ UNCHANGED <<lst, sessions, credsSeq, inflight, keyVars, jVars, sleeping>>
  /\ UNCHANGED <<ret, mVars>>

\* logout: removeSession up to ws.close()
WLogoutRemove ==
  /\ logoutPc = "rm"
  /\ RemoveSessionEnd
  /\ db' = Flushed(db)
  /\ logoutPc' = IF sessions = 0 THEN "update" ELSE "del"
  /\ UNCHANGED <<handler, credsSeq, inflight, undisturbed, terminal, keyVars, jVars, sleeping>>
  /\ UNCHANGED notified
  /\ UNCHANGED <<ret, mVars>>

\* logout: removeSession's sessions.delete
WLogoutDelete ==
  /\ logoutPc = "del"
  /\ sessions' = 0
  /\ logoutPc' = "update"
  /\ NoCreds
  /\ UNCHANGED <<sock, lst, handler, credsSeq, inflight, undisturbed, terminal, db,
                 keyVars, jVars, sleeping>>
  /\ UNCHANGED notified
  /\ UNCHANGED <<ret, mVars>>

\* logout: the clearing write
WLogoutUpdate ==
  /\ logoutPc = "update"
  /\ db' = [db EXCEPT !.status = "DISCONNECTED", !.qrcode = 0, !.session = 0,
                      !.retries = 0]
  /\ notified' = Snap(db')
  /\ logoutPc' = "purge"
  /\ NoCreds
  /\ UNCHANGED <<sock, lst, handler, sessions, credsSeq, inflight, undisturbed, terminal,
                 keyVars, jVars, sleeping>>
  /\ UNCHANGED <<ret, mVars>>

\* logout: clearSessionKeys, then return
WLogoutPurge ==
  /\ logoutPc = "purge"
  /\ redis' = clearSessionKeys(WhatsappId)
  /\ logoutPc' = "idle"
  /\ Returned("logout")
  /\ NoCreds
  /\ UNCHANGED <<sock, lst, handler, sessions, credsSeq, inflight, db,
                 redisClient, wppKeys, lastSet, call, jVars, sleeping>>
  /\ UNCHANGED notified
  /\ UNCHANGED <<ret, mVars>>

\* keys.set of a live socket for a hot key of the connection
WKeysSet(s) ==
  /\ sock[s] \in WLive
  /\ StoreWppSessionKeys(WhatsappId, 1, "session", "k1", BufVal(7))

\* sendMessage / sendMedia of the whaileys provider: getWbot, then
\* wbot.sendMessage, which throws "Connection Closed" on an ended socket
WSend(op) ==
  /\ ret' = IF sessions = 0
              THEN [op |-> op, live |-> \E s \in Socks : sock[s] \in WLive,
                    error |-> "ERR_WAPP_NOT_INITIALIZED", sent |-> FALSE]
            ELSE IF sock[sessions] # "open"
              THEN [op |-> op, live |-> \E s \in Socks : sock[s] \in WLive,
                    error |-> "Connection Closed", sent |-> FALSE]
            ELSE [op |-> op, live |-> TRUE, error |-> "", sent |-> TRUE,
                  fromMe |-> TRUE, ack |-> 1]
  /\ ret' # ret
  /\ UNCHANGED <<db, notified, mVars, wVars, keyVars, jVars>>

\* checkNumber of the whaileys provider
checkNumber(net) ==
  IF sessions = 0 THEN Throw("ERR_WAPP_NOT_INITIALIZED")
  ELSE IF net = "error" THEN Throw("network")
  ELSE IF net = "absent" THEN Throw("ERR_NUMBER_NOT_ON_WHATSAPP")
  ELSE Value("jid")

\* a lookup reaches the network only through an open socket
WNet(net) == IF sessions # 0 /\ sock[sessions] = "open" THEN net ELSE "error"

WCheckContact(net) ==
  /\ ret' = [op |-> "CheckIsValidContact", net |-> WNet(net),
             inner |-> checkNumber(WNet(net)),
             error |-> CheckIsValidContact(checkNumber(WNet(net)))]
  /\ ret' # ret
  /\ UNCHANGED <<db, notified, mVars, wVars, keyVars, jVars>>

\* Array.prototype.slice(start) with no end
Slice(arr, start) ==
  LET k == IF start < 0
             THEN (IF Len(arr) + start > 0 THEN Len(arr) + start ELSE 0)
           ELSE (IF start < Len(arr) THEN start ELSE Len(arr))
  IN SubSeq(arr, k + 1, Len(arr))

\* the messages a chat can hold in the local store, oldest first
Stores == {[i \in 1..n |-> i] : n \in 0..MaxStore}

\* fetchChatMessages: messagesFromStore.slice(-limit), one payload per message
fetchChatMessages(messagesFromStore, limit) == Slice(messagesFromStore, 0 - limit)

WFetchChatMessages(messagesFromStore, limit) ==
  /\ ret' = IF sessions = 0
              THEN [op |-> "fetchChatMessages", error |-> "ERR_WAPP_NOT_INITIALIZED"]
            ELSE [op |-> "fetchChatMessages", error |-> "", limit |-> limit,
                  store |-> messagesFromStore,
                  result |-> fetchChatMessages(messagesFromStore, limit)]
  /\ ret' # ret
  /\ UNCHANGED <<db, notified, mVars, wVars, keyVars, jVars>>

InitW ==
  /\ InitDb /\ InitJ0 /\ InitW0
  /\ redisClient = TRUE /\ redis = <<>> /\ wppKeys = <<>> /\ lastSet = None
  /\ call = [op |-> "none", type |-> "", touched |-> {}, wrote |-> {}]

NextW ==
  \/ WStartSession
  \/ WTimerFire
  \/ \E v \in 1..MaxCreds : WSaveLands(v)
  \/ WLogout
  \/ WLogoutRemove
  \/ WLogoutDelete
  \/ WLogoutUpdate
  \/ WLogoutPurge
  \/ \E s \in Socks :
       \/ WQr(s)
       \/ WOpen(s)
       \/ WCredsUpdate(s)
       \/ \E reason \in {"transient", "loggedOut"} : WClose(s, reason)
       \/ WSleepTick(s)
       \/ WReconnect(s)
       \/ WIntentionalPurge(s)
       \/ WHandlerRemove(s)
       \/ WHandlerDelete(s)
       \/ WKeysSet(s)

Spec == InitW /\ [][NextW]_vars

\* the session events that open and close the registry entry, and the sends
NextSendW ==
  \/ WStartSession
  \/ \E op \in {"sendMessage", "sendMedia"} : WSend(op)
  \/ \E net \in Lookups : WCheckContact(net)
  \/ \E st \in Stores, limit \in 0..MaxLimit : WFetchChatMessages(st, limit)
  \/ \E s \in Socks :
       \/ WQr(s)
       \/ WOpen(s)
       \/ \E reason \in {"transient", "loggedOut"} : WClose(s, reason)
       \/ WSleepTick(s)
       \/ WReconnect(s)
       \/ WHandlerRemove(s)
       \/ WHandlerDelete(s)

SpecSendW == InitW /\ [][NextSendW]_vars

\* ------------------------------------- whatsapp-web.js: inbound messages

\* msg.type as the library reports it; "revoked" stands for the types the
\* filter does not list
JTypes == {"chat", "audio", "ptt", "video", "image", "document", "vcard",
           "sticker", "location", "revoked"}

\* the addresses of a message
Addresses == {"me@c.us", "5511@c.us", "status@broadcast"}

\* where the handling of one message fails: nowhere, in the contact and chat
\* lookups of getMessageData, in downloadMedia (it throws), or downloadMedia
\* returns nothing
Failures == {"none", "normalize", "download", "nomedia"}

\* the messages the library hands to a listener; lrm: the body starts with
\* U+200E; named: the location has a description
JMessages ==
  {m \in [from : Addresses, to : Addresses, fromMe : BOOLEAN, type : JTypes,
          lrm : BOOLEAN, hasMedia : BOOLEAN, named : BOOLEAN] :
     /\ m.from # m.to
     /\ m.fromMe <=> m.from = "me@c.us"
     /\ ~m.fromMe => m.to = "me@c.us"
     /\ m.named => m.type = "location"
     /\ m.lrm => m.type = "chat"
     /\ m.hasMedia => m.type \in {"audio", "ptt", "video", "image", "document",
                                    "sticker"}}

\* shouldHandleMessage of the whatsapp-web.js provider
JshouldHandleMessage(msg) ==
  /\ msg.from # "status@broadcast"
  /\ msg.type # "revoked"
  /\ ~msg.lrm
  /\ msg.fromMe => (msg.hasMedia \/ msg.type \in {"location", "chat", "vcard"})

\* prepareLocation: the fields of the body, as separated by "|"
prepareLocation(msg) ==
  <<"data:image/png;base64", "gmapsUrl",
    IF msg.named THEN "description" ELSE "latitude, longitude">>

\* convertToMessagePayload and convertToMediaPayload of getMessageData for
\* message i of the event
JgetMessageData(i, msg, fail) ==
  [of |-> i,
   body |-> IF msg.type = "location" THEN prepareLocation(msg) ELSE <<"body">>,
   fromMe |-> msg.fromMe, hasMedia |-> msg.hasMedia, type |-> msg.type,
   media |-> IF msg.hasMedia /\ fail # "nomedia" THEN "present" ELSE "absent"]

\* getMessageData throws for this message
JThrows(msg, fail) ==
  \/ fail = "normalize"
  \/ fail = "download" /\ msg.hasMedia

\* a ready client emits its events
JReadyClient == \E c \in JClients : jClient[c] = "ready"

\* the message events so far
InboundSoFar == inb.n

\* "message_create": filter, getMessageData and handleMessage in a try/catch
JMessageCreate(msg, fail) ==
  /\ JReadyClient
  /\ InboundSoFar < MaxInbound
  /\ inb' = [event |-> "message_create", kind |-> "", msgs |-> <<msg>>,
             fails |-> <<fail>>,
             valid |-> IF JshouldHandleMessage(msg) THEN {1} ELSE {},
             handed |-> IF JshouldHandleMessage(msg) /\ ~JThrows(msg, fail)
                          THEN {JgetMessageData(1, msg, fail)} ELSE {},
             n |-> inb.n + 1, log |-> inb.log, cached |-> inb.cached]
  /\ UNCHANGED <<hm, ackEvents, msgAck, db, notified, ret, jVars, keyVars, wVars>>

\* the unread messages a chat can hold
JBacklogs ==
  {b \in UNION {[1..n -> {m \in JMessages : ~m.fromMe /\ m.from = "5511@c.us"
                                              /\ m.type \in {"chat", "image"}
                                              /\ ~m.lrm /\ (m.hasMedia <=> m.type = "image")}] :
                 n \in 1..MaxBacklog} : TRUE}

\* the first message of the backlog at which getMessageData throws (0: none)
JFirstThrow(b, fails) ==
  LET bad == {i \in DOMAIN b : JshouldHandleMessage(b[i]) /\ JThrows(b[i], fails[i])}
  IN IF bad = {} THEN 0 ELSE CHOOSE i \in bad : \A j \in bad : i <= j

\* "ready", last: syncUnreadMessages with the unread messages written out; one
\* try/catch around the loops
JSyncUnreadMessages(c, b, fails) ==
  /\ jHandler[c] = "sync"
  /\ jUnread' = 0
  /\ jHandler' = [jHandler EXCEPT ![c] = "idle"]
  /\ inb' = [event |-> "syncUnreadMessages", kind |-> "", msgs |-> b, fails |-> fails,
             valid |-> {k \in DOMAIN b : JshouldHandleMessage(b[k])},
             handed |-> {JgetMessageData(i, b[i], fails[i]) :
                           i \in {k \in DOMAIN b :
                                    /\ JshouldHandleMessage(b[k])
                                    /\ JFirstThrow(b, fails) = 0 \/ k < JFirstThrow(b, fails)}},
             n |-> inb.n + 1, log |-> inb.log, cached |-> inb.cached]
  /\ UNCHANGED <<hm, ackEvents, msgAck, db, notified, ret, jClient, jSessions, jStarts,
                 keyVars, wVars>>

NextMsgJ ==
  \/ JStartSession
  \/ JInit
  \/ \E msg \in JMessages, fail \in Failures : JMessageCreate(msg, fail)
  \/ \E c \in JClients :
       \/ JReady(c)
       \/ JReadyRegister(c)
       \/ \E b \in JBacklogs : \E fails \in [DOMAIN b -> Failures] :
            JSyncUnreadMessages(c, b, fails)

SpecMsgJ == InitJ /\ [][NextMsgJ]_vars

\* -------------------------------------------- whaileys: inbound messages

\* a socket with its listeners is open
Listening == \E s \in Socks : sock[s] = "open" /\ lst[s] # "none"

\* getContentType(msg.message); "protocolMessage" stands for the types the
\* filter does not list, "none" for a message without content
WContentTypes ==
  {"conversation", "extendedTextMessage", "imageMessage", "videoMessage",
   "audioMessage", "documentMessage", "stickerMessage", "locationMessage",
   "contactMessage", "contactsArrayMessage", "protocolMessage", "none"}

\* jids, as user and server
Jid(user, server) == [user |-> user, server |-> server]
NoJid == Jid("", "")
PnJid == Jid("5511", "s.whatsapp.net")
LidJid == Jid("77", "lid")
GroupJid == Jid("120", "g.us")

\* msg.key.id: 0 stands for a key without an id
MsgIds == {1, 2}

\* the messages of the filter cases: every content type in both directions,
\* from a phone-number jid with no alias fields
WFilterMessages ==
  {m \in [contentType : WContentTypes, fromMe : BOOLEAN, lrm : BOOLEAN,
          named : BOOLEAN, remoteJid : {PnJid}, senderPn : {NoJid},
          participantPn : {NoJid}, senderLid : {NoJid}, id : {1}] :
     /\ m.named => m.contentType = "locationMessage"
     /\ m.lrm => m.contentType = "conversation"}

\* the messages of the routing cases: a received text under every combination
\* of the key's jid and alias fields
WRoutedMessages ==
  [contentType : {"conversation"}, fromMe : {FALSE}, lrm : {FALSE},
   named : {FALSE}, remoteJid : {PnJid, LidJid, GroupJid},
   senderPn : {NoJid, PnJid, LidJid}, participantPn : {NoJid, PnJid, LidJid},
   senderLid : {NoJid, LidJid}, id : {1}]

WMessages == WFilterMessages \cup WRoutedMessages

\* hasMedia
hasMedia(msg) ==
  msg.contentType \in {"imageMessage", "videoMessage", "audioMessage",
                       "documentMessage", "stickerMessage"}

\* mapMessageType (ptt left out)
mapMessageType(msg) ==
  CASE msg.contentType \in {"conversation", "extendedTextMessage"} -> "chat"
    [] msg.contentType = "imageMessage" -> "image"
    [] msg.contentType = "videoMessage" -> "video"
    [] msg.contentType = "audioMessage" -> "audio"
    [] msg.contentType = "documentMessage" -> "document"
    [] msg.contentType = "stickerMessage" -> "sticker"
    [] msg.contentType = "locationMessage" -> "location"
    [] msg.contentType \in {"contactMessage", "contactsArrayMessage"} -> "vcard"
    [] OTHER -> "chat"

\* shouldHandleMessage of the whaileys provider
shouldHandleMessage(msg) ==
  /\ msg.contentType \notin {"protocolMessage", "none"}
  /\ ~msg.lrm
  /\ msg.fromMe =>
       \/ hasMedia(msg)
       \/ msg.contentType \in {"locationMessage", "conversation",
                                "extendedTextMessage", "contactMessage"}

\* getMessageBody: the fields of the body, as separated by "|"
getMessageBody(msg) ==
  IF msg.contentType = "locationMessage"
    THEN <<"gmapsUrl", IF msg.named THEN "description" ELSE "latitude, longitude">>
  ELSE <<"body">>

\* the first element of a sequence of jids that satisfies the test (NoJid:
\* none), as Array.prototype.find
RECURSIVE Find(_, _)
Find(cands, servers) ==
  IF cands = <<>> THEN NoJid
  ELSE IF Head(cands).server \in servers THEN Head(cands)
  ELSE Find(Tail(cands), servers)

\* convertToContactPayload(jid, msg, wbot)
convertToContactPayload(jid, msg) ==
  LET lid == Find(<<msg.senderLid, msg.senderPn, msg.participantPn>>, {"lid"})
      preferPn == Find(<<msg.senderPn, msg.participantPn>>, {"s.whatsapp.net"})
      resolvedJid ==
        IF jid.server = "lid" /\ preferPn # NoJid THEN preferPn
        ELSE IF jid # NoJid /\ jid.server \notin {"s.whatsapp.net", "g.us"}
                /\ preferPn # NoJid THEN preferPn
        ELSE jid
  IN IF resolvedJid.server = "g.us"
       THEN [number |-> resolvedJid.user, lid |-> NoJid, isGroup |-> TRUE]
     ELSE [number |-> IF resolvedJid.server = "s.whatsapp.net" THEN resolvedJid.user
                      ELSE IF preferPn # NoJid THEN preferPn.user
                      ELSE resolvedJid.user,
           lid |-> IF resolvedJid.server = "lid" /\ resolvedJid.user # ""
                     THEN Jid(resolvedJid.user, "lid") ELSE lid,
           isGroup |-> FALSE]

\* getMessageData for message i of the event; a failed download is caught in
\* convertToMediaPayload
getMessageData(i, msg, fail) ==
  [of |-> i, body |-> getMessageBody(msg), fromMe |-> msg.fromMe,
   hasMedia |-> hasMedia(msg), type |-> mapMessageType(msg),
   media |-> IF hasMedia(msg) /\ fail \notin {"download", "nomedia"}
               THEN "present" ELSE "absent",
   contact |-> convertToContactPayload(msg.remoteJid, msg)]

\* a filter that takes the messages of every event type
validMessagesAnyType(messages, type) ==
  {i \in DOMAIN messages : shouldHandleMessage(messages[i])}

\* validMessages of "messages.upsert"
validMessages(messages, type) ==
  {i \in DOMAIN messages :
     /\ shouldHandleMessage(messages[i])
     /\ type = "notify" \/ (type = "append" /\ messages[i].fromMe)}

\* the received messages of a batch, with and without an id; an id names
\* one message
WBatchMessages ==
  {m \in [contentType : {"conversation", "imageMessage"}, fromMe : {FALSE},
          lrm : {FALSE}, named : {FALSE}, remoteJid : {PnJid}, senderPn : {NoJid},
          participantPn : {NoJid}, senderLid : {NoJid}, id : {0} \cup MsgIds] :
     m.id = 2 => m.contentType = "imageMessage"}

\* the batches of more than one message
WBatches ==
  {b \in [1..MaxBacklog -> WBatchMessages] :
     \A i, j \in DOMAIN b : (b[i].id = b[j].id /\ b[i].id # 0) => b[i] = b[j]}

\* msgCache.save(msg): nothing for a key without an id, else the message is
\* kept under its id
msgCacheSave(cache, msg) ==
  IF msg.id = 0 THEN cache
  ELSE [x \in DOMAIN cache \cup {msg.id} |-> IF x = msg.id THEN msg ELSE cache[x]]

\* messages.forEach(msg => msgCache.save(msg))
RECURSIVE SaveAll(_, _)
SaveAll(cache, messages) ==
  IF messages = <<>> THEN cache
  ELSE SaveAll(msgCacheSave(cache, Head(messages)), Tail(messages))

\* the ids of the messages at the positions ks, in the order of the event
RECURSIVE IdsAt(_, _, _)
IdsAt(messages, ks, i) ==
  IF i > Len(messages) THEN <<>>
  ELSE (IF i \in ks THEN <<messages[i].id>> ELSE <<>>) \o IdsAt(messages, ks, i + 1)

\* "messages.upsert": each valid message in its own try/catch
WMessagesUpsert(messages, type, fails) ==
  /\ Listening
  /\ inb' = [event |-> "messages.upsert", kind |-> type, msgs |-> messages,
             fails |-> fails, valid |-> validMessages(messages, type),
             handed |-> {getMessageData(i, messages[i], fails[i]) :
                           i \in {k \in validMessages(messages, type) :
                                    fails[k] # "normalize"}},
             n |-> inb.n + 1,
             log |-> inb.log \o IdsAt(messages, {k \in validMessages(messages, type) :
                                                   fails[k] # "normalize"}, 1),
             cached |-> SaveAll(inb.cached, messages)]
  /\ UNCHANGED <<hm, ackEvents, msgAck, db, notified, ret, wVars, keyVars, jVars>>

\* the type of a messages.upsert event; "prepend" stands for any type other
\* than the two the handler names
UpsertTypes == {"notify", "append", "prepend"}

NextMsgW ==
  \/ WStartSession
  \/ \E s \in Socks : WOpen(s)
  \/ \E msg \in WMessages, type \in UpsertTypes, fail \in Failures :
       InboundSoFar < MaxInbound /\ WMessagesUpsert(<<msg>>, type, <<fail>>)
  \/ \E b \in WBatches : \E fails \in [DOMAIN b -> Failures] :
       InboundSoFar < MaxInbound /\ WMessagesUpsert(b, "notify", fails)

\* the events in which a message can come again: received messages, none of
\* which fails, no message twice in one event
NextDupW ==
  \/ WStartSession
  \/ \E s \in Socks : WOpen(s)
  \/ \E msg \in WBatchMessages, type \in {"notify"} :
       InboundSoFar < MaxDupEvents /\ WMessagesUpsert(<<msg>>, type, <<"none">>)
  \/ \E b \in {x \in WBatches : \A i, j \in DOMAIN x : x[i] = x[j] => i = j} :
       InboundSoFar < MaxDupEvents
         /\ WMessagesUpsert(b, "notify", [i \in DOMAIN b |-> "none"])

SpecDupW == InitW /\ [][NextDupW]_vars

SpecMsgW == InitW /\ [][NextMsgW]_vars

\* ---------------------------------------------- whaileys: acks of a message

\* WAMessageStatus of the library: ERROR, PENDING, SERVER_ACK, DELIVERY_ACK,
\* READ, PLAYED
Statuses == 0..5

\* the timestamps a receipt can carry
Receipts == SUBSET {"receiptTimestamp", "readTimestamp", "playedTimestamp"}

\* the level of a receipt that tests the read timestamp first
ReceiptAckReadFirst(receipt) ==
  IF "readTimestamp" \in receipt THEN 3
  ELSE IF "playedTimestamp" \in receipt THEN 4
  ELSE 2

\* "message-receipt.update": the level of a receipt
ReceiptAck(receipt) ==
  IF "playedTimestamp" \in receipt THEN 4
  ELSE IF "readTimestamp" \in receipt THEN 3
  ELSE 2

\* the handleMessageAck calls that have not ended
AckRunning == {i \in DOMAIN ackEvents : ackEvents[i].pc \in {"timer", "query"}}

\* an event and the handleMessageAck call it makes (ack = -1, pc "dropped":
\* the handler returned without a call)
AckEvent(kind, status, receipt, hasId, called, ack) ==
  [kind |-> kind, status |-> status, receipt |-> receipt, hasId |-> hasId,
   ack |-> IF called THEN ack ELSE -1,
   pc |-> IF called THEN "timer" ELSE "dropped"]

\* "messages.update" with one update of the message
WMessagesUpdate(status, hasId) ==
  /\ Listening
  /\ Len(ackEvents) < MaxAckEvents
  /\ Cardinality(AckRunning) < MaxAckCalls
  /\ ackEvents' = Append(ackEvents,
                     AckEvent("messages.update", status, {}, hasId,
                              status # 0 /\ hasId, status))
  /\ UNCHANGED <<hm, msgAck, inb, db, notified, ret, wVars, keyVars, jVars>>

\* "message-receipt.update" with one receipt of the message
WReceiptUpdate(receipt, hasId) ==
  /\ Listening
  /\ Len(ackEvents) < MaxAckEvents
  /\ Cardinality(AckRunning) < MaxAckCalls
  /\ ackEvents' = Append(ackEvents,
                     AckEvent("message-receipt.update", 0, receipt, hasId,
                              hasId, ReceiptAck(receipt)))
  /\ UNCHANGED <<hm, msgAck, inb, db, notified, ret, wVars, keyVars, jVars>>

\* handleMessageAck: the 500 ms timer of call i runs out (timers of one delay
\* fire in the order they were set) and findByPk is sent
AckTimerFires(i) ==
  /\ ackEvents[i].pc = "timer"
  /\ \A j \in 1..(i - 1) : ackEvents[j].pc # "timer"
  /\ ackEvents' = [ackEvents EXCEPT ![i].pc = "query"]
  /\ UNCHANGED <<hm, msgAck, inb, db, notified, ret, wVars, keyVars, jVars>>

\* handleMessageAck: the queries of call i complete, the row is updated and
\* "appMessage" is emitted
AckUpdate(i) ==
  /\ ackEvents[i].pc = "query"
  /\ msgAck' = ackEvents[i].ack
  /\ ackEvents' = [ackEvents EXCEPT ![i].pc = "done"]
  /\ UNCHANGED <<hm, inb, db, notified, ret, wVars, keyVars, jVars>>

NextAck ==
  \/ WStartSession
  \/ \E s \in Socks : WOpen(s)
  \/ \E status \in Statuses : WMessagesUpdate(status, TRUE)
  \/ WMessagesUpdate(2, FALSE)
  \/ \E receipt \in Receipts : WReceiptUpdate(receipt, TRUE)
  \/ WReceiptUpdate({"readTimestamp"}, FALSE)
  \/ \E i \in DOMAIN ackEvents :
       \/ AckTimerFires(i)
       \/ AckUpdate(i)

SpecAck == InitW /\ [][NextAck]_vars

\* --------------------------------- handleMessage calls running side by side
\* the numbers of the senders, and the calls of one Promise.all
Senders == {"5511", "5522"}
Calls == 1..MaxParallel

\* Contact.findOne({ where: { number } }): the first row with the number
\* (0: null)
FindOneContact(contacts, number) ==
  IF \E i \in DOMAIN contacts : contacts[i] = number
    THEN CHOOSE i \in DOMAIN contacts :
           contacts[i] = number /\ \A j \in 1..(i - 1) : contacts[j] # number
  ELSE 0

\* the calls run one after the other in the given order: each finds its
\* contact or creates it, then stores its message
RECURSIVE OneAfterTheOther(_, _, _, _)
OneAfterTheOther(contacts, messages, number, order) ==
  IF order = <<>> THEN [contacts |-> contacts, messages |-> messages]
  ELSE LET p == Head(order)
           row == FindOneContact(contacts, number[p])
           rows == IF row = 0 THEN Append(contacts, number[p]) ELSE contacts
       IN OneAfterTheOther(rows,
                           messages \cup {[of |-> p,
                                           contactId |-> FindOneContact(rows, number[p])]},
                           number, Tail(order))

\* "messages.upsert": Promise.all over the valid messages starts a
\* handleMessage call for each; known: the Contacts rows there are; unique:
\* whether the table has a unique index on the number
HandleMessages(number, known, unique) ==
  /\ Listening
  /\ hm.pc = <<>>
  /\ hm' = [contacts |-> known, messages |-> {}, unique |-> unique,
            number |-> number, pc |-> [p \in Calls |-> "find"],
            found |-> [p \in Calls |-> 0], known |-> known]
  /\ UNCHANGED <<ackEvents, msgAck, inb, db, notified, ret, wVars, keyVars, jVars>>

\* CreateOrUpdateContactService up to its first await: the lookups
CFind(p) ==
  /\ p \in DOMAIN hm.pc /\ hm.pc[p] = "find"
  /\ hm' = [hm EXCEPT !.found[p] = FindOneContact(hm.contacts, hm.number[p]),
                      !.pc[p] = IF FindOneContact(hm.contacts, hm.number[p]) = 0
                                  THEN "create" ELSE "update"]
  /\ UNCHANGED <<ackEvents, msgAck, inb, db, notified, ret, wVars, keyVars, jVars>>

\* contactByNumber.update({ lid, profilePicUrl })
CUpdate(p) ==
  /\ p \in DOMAIN hm.pc /\ hm.pc[p] = "update"
  /\ hm' = [hm EXCEPT !.pc[p] = "store"]
  /\ UNCHANGED <<ackEvents, msgAck, inb, db, notified, ret, wVars, keyVars, jVars>>

\* Contact.create: a new row; with a unique index a second row of the number
\* is refused, and handleMessage catches the error and returns
CCreate(p) ==
  /\ p \in DOMAIN hm.pc /\ hm.pc[p] = "create"
  /\ IF hm.unique /\ FindOneContact(hm.contacts, hm.number[p]) # 0
       THEN hm' = [hm EXCEPT !.pc[p] = "failed"]
       ELSE hm' = [hm EXCEPT !.contacts = Append(@, hm.number[p]),
                             !.found[p] = Len(hm.contacts) + 1,
                             !.pc[p] = "store"]
  /\ UNCHANGED <<ackEvents, msgAck, inb, db, notified, ret, wVars, keyVars, jVars>>

\* the rest of handleMessage: the ticket of the contact, CreateMessageService
CStore(p) ==
  /\ p \in DOMAIN hm.pc /\ hm.pc[p] = "store"
  /\ hm' = [hm EXCEPT !.messages = @ \cup {[of |-> p, contactId |-> hm.found[p]]},
                      !.pc[p] = "done"]
  /\ UNCHANGED <<ackEvents, msgAck, inb, db, notified, ret, wVars, keyVars, jVars>>

NextHandleW ==
  \/ WStartSession
  \/ \E s \in Socks : WOpen(s)
  \/ \E number \in [Calls -> Senders], known \in {<<>>, <<"5511">>}, unique \in BOOLEAN :
       HandleMessages(number, known, unique)
  \/ \E p \in Calls :
       \/ CFind(p)
       \/ CUpdate(p)
       \/ CCreate(p)
       \/ CStore(p)

SpecHandleW == InitW /\ [][NextHandleW]_vars

\* ------------------------------------- the purge of a connection's hot keys
\* StoreWppSessionKeys of a hot category, with room for the keys of two
\* connections
StoreHotKey(connectionId, deviceId, type, id, value) ==
  /\ UsesRedis(type)
  /\ redis' = setInRedis(RedisKeyOf(connectionId, deviceId, type, id),
                         JSONstringify(value))
  /\ Cardinality(DOMAIN redis') <= MaxPurgeKeys
  /\ call' = [op |-> "set", type |-> type, touched |-> {"redis"},
              wrote |-> Changed(redis', wppKeys)]
  /\ lastSet' = [connectionId |-> connectionId, deviceId |-> deviceId,
                 type |-> type, id |-> id, value |-> value, elapsed |-> 0]
  /\ UNCHANGED <<redisClient, wppKeys, db, notified, ret, mVars, jVars, wVars>>

\* clearSessionKeys(sessionId), as logout and the "Intentional Logout" branch
\* call it
ClearSessionKeys(sessionId) ==
  /\ redis' = clearSessionKeys(sessionId)
  /\ call' = [op |-> "clearSessionKeys", sessionId |-> sessionId, before |-> redis]
  /\ UNCHANGED <<redisClient, wppKeys, lastSet, db, notified, ret, mVars, jVars, wVars>>

NextPurge ==
  \/ \E c \in ConnIds, d \in DeviceIds, t \in HotTypes, i \in WrittenIds, v \in Vals :
       StoreHotKey(c, d, t, i, v)
  \/ \E c \in ConnIds : ClearSessionKeys(c)

SpecPurge == InitKeys /\ [][NextPurge]_vars

\* ------------------------------------------- reconnects under fair scheduling
\* sockets and clients not created yet, reconnect delays that will need one
FreeSocks == Cardinality({s \in Socks : sock[s] = "none"})
PendingReconnects == Cardinality({s \in Socks : handler[s] = "sleep"})
FreeClients == Cardinality({c \in JClients : jClient[c] = "none"})
JPendingInits == jStarts + Cardinality({c \in JClients : jHandler[c] = "sleep"})

\* the provider the deployment runs: the one that was started
UsesWhaileys == jStarts = 0 /\ \A c \in JClients : jClient[c] = "none"
UsesWwebjs == \A s \in Socks : sock[s] = "none"

\* both providers; a start belongs to the provider that runs, and a close
\* that will reconnect and a start from outside happen while a socket or
\* client is left for every init that is waiting
NextLive ==
  \/ UsesWhaileys /\ FreeSocks > PendingReconnects /\ WStartSession
  \/ UsesWhaileys /\ WLogout
  \/ WLogoutRemove
  \/ WLogoutDelete
  \/ WLogoutUpdate
  \/ WLogoutPurge
  \/ \E s \in Socks :
       \/ WOpen(s)
       \/ FreeSocks > PendingReconnects /\ WClose(s, "transient")
       \/ WClose(s, "loggedOut")
       \/ WSleepTick(s)
       \/ WReconnect(s)
       \/ WIntentionalPurge(s)
       \/ WHandlerRemove(s)
       \/ WHandlerDelete(s)
  \/ UsesWwebjs /\ logoutPc = "idle" /\ FreeClients > JPendingInits /\ JStartSession
  \/ JInit
  \/ JLogout
  \/ \E c \in JClients :
       \/ JReady(c)
       \/ JReadyRegister(c)
       \/ JSyncUnread(c)
       \/ FreeClients > JPendingInits /\ JDisconnected(c)
       \/ JReconnect(c)

\* timers run out and the code after an await is run: the sleep of a close
\* handler and the init that follows it
FairReconnect ==
  /\ \A s \in Socks : WF_vars(WSleepTick(s)) /\ WF_vars(WReconnect(s))
  /\ \A c \in JClients : WF_vars(JReconnect(c))

SpecLive == InitW /\ [][NextLive]_vars /\ FairReconnect

\* ------------------------------------------------------------- claims

\* C1 (as claimed): for the connection id, at most one session handle is live
\* at any instant, in either provider: after concurrent init calls one created
\* client is live and every earlier one was torn down.
C1_AtMostOneLive ==
  Cardinality({c \in JClients : jClient[c] \in JLive}) <= 1


\* what a get for the key of the last set returns
GetLastSet ==
  GetWppSessionKeys(lastSet.connectionId, lastSet.deviceId, lastSet.type,
                    {lastSet.id})

\* steps of the whaileys provider the claims speak of
LogoutReturns == logoutPc = "purge" /\ logoutPc' = "idle"
LogoutProceeds == logoutPc = "idle" /\ logoutPc' = "rm"
LoggedOutCloseDone == \E s \in Socks : handler[s] \in {"lo_rm", "lo_del"} /\ handler'[s] = "idle"
ReconnectInit == \E s \in Socks : handler[s] = "sleep" /\ handler'[s] = "idle"
OpenConnected == \E s \in Socks : sock[s] = "connecting" /\ sock'[s] = "open" /\ lst[s] = "all"
NoLiveSocket == \A s \in Socks : sock[s] \notin WLive
HotKeysOf(sessionId) == {k \in DOMAIN redis : GlobMatch(k, ScanPattern(sessionId))}

\* C2 (as claimed): once a logout or a server-reported logged-out close was
\* processed, no init creates a socket for the connection until an external
\* caller starts the session again, also when a reconnect was waiting.
C2_LogoutTerminal ==
  [][(terminal /\ terminal') => \A s \in Socks : sock[s] = "none" => sock'[s] = "none"]_vars

\* C3 (as claimed): when logout returns and when the logged-out close handler
\* returns, with no session started meanwhile, the record is DISCONNECTED with
\* empty session, empty qrcode and retries 0, and no hot key of the connection
\* is left.
C3_LogoutLeavesCleared ==
  [][((LogoutReturns /\ "logout" \in undisturbed) \/
      (LoggedOutCloseDone /\ "close" \in undisturbed)) =>
       /\ db'.status = "DISCONNECTED" /\ db'.session = 0
       /\ db'.qrcode = 0 /\ db'.retries = 0
       /\ HotKeysOf(WhatsappId)' = {}]_vars

\* C4 (as claimed): when logout(id) returns, with no session started meanwhile,
\* no hot key of the connection is left and the record's qrcode and session
\* are empty.
C4_LogoutPurges ==
  [][(LogoutReturns /\ "logout" \in undisturbed) =>
       /\ HotKeysOf(WhatsappId)' = {}
       /\ db'.qrcode = 0 /\ db'.session = 0]_vars

\* C5: a creds.update writes nothing by itself; the flush that ends a burst of N
\* events cancels the timer and makes one saveSessionCreds call, which stores
\* the value of the last event.
C5_DebounceCollapses ==
  [][/\ credsSeq' # credsSeq => (saves' = saves /\ db' = db)
     /\ (pendingCredsSaves # 0 /\ pendingCredsSaves' = 0 /\ inflight' = inflight) =>
          /\ saves' = saves + 1
          /\ credsDebounceTimers' = 0
          /\ flushedBurst' = burst
          /\ db'.session = credsSeq]_vars

\* a burst of two events was flushed: one save, holding the second value
C5_Witness ==
  /\ flushedBurst = 2 /\ credsSeq = 2
  /\ saves = 1 /\ inflight = {}
  /\ db.session = 2

\* C6 (as claimed): when the reconnect branch calls init, when logout goes on
\* past its flush and when the open branch writes CONNECTED, no credential
\* write is still on its way to the table.
C6_WritesCompleted ==
  [][(ReconnectInit \/ LogoutProceeds \/ OpenConnected) => inflight = {}]_vars

\* the write of the last keys.set call at position i can be read back
BatchStored(i) ==
  GetWppSessionKeys(call.connectionId, call.deviceId, call.writes[i].type,
                    {call.writes[i].id})
    = [id \in {call.writes[i].id} |-> call.writes[i].value]

\* C11: after a keys.set in which some writes failed, the set has resolved and
\* every write that did not fail is stored (a hot write needs the Redis client).
C11_PartialFailureIsolation ==
  call.op = "batch" =>
    /\ call.result = "resolved"
    /\ \A i \in DOMAIN call.writes :
         (i \notin call.failed /\ (UsesRedis(call.writes[i].type) => redisClient))
           => BatchStored(i)

\* a batch of two whose first write failed and whose second is stored
C11_Witness ==
  /\ call.op = "batch" /\ call.result = "resolved"
  /\ Len(call.writes) = 2 /\ call.failed = {1}
  /\ call.writes[1].type = "session" /\ call.writes[2].type = "identity-key"
  /\ redis = <<>>
  /\ BatchStored(2)

\* steps of the reconnect branch
NewSocket == \E s \in Socks : sock[s] = "none" /\ sock'[s] # "none"
TransientCloseHandled(s) ==
  sock[s] \in WLive /\ sock'[s] = "closed" /\ handler[s] = "idle" /\ handler'[s] = "sleep"

\* C12: a transient close writes OPENING, creates no socket and starts a sleep
\* of at least a second; the handler calls init only when its sleep has run
\* out; a step of a close handler creates a socket only at the end of its sleep.
C12_ReconnectAfterDelay ==
  [][/\ \A s \in Socks :
          /\ TransientCloseHandled(s) =>
               (db'.status = "OPENING" /\ sleeping'[s] >= TickMs /\ ~NewSocket)
          /\ (handler[s] = "sleep" /\ handler'[s] # "sleep") =>
               (sleeping[s] = 0 /\ NewSocket)
     /\ (NewSocket /\ handler' # handler) =>
          \E s \in Socks : handler[s] = "sleep" /\ handler'[s] = "idle" /\ sleeping[s] = 0]_vars

\* a transient close was handled and its delay has run out
C12_Witness ==
  \E s \in Socks :
    /\ handler[s] = "sleep" /\ sleeping[s] = 0
    /\ sock[s] = "closed" /\ sessions = s
    /\ db.status = "OPENING"

\* C13 (as claimed): when the ready handler writes CONNECTED (with retries 0)
\* and when it then notifies the observers, no unread message is still waiting
\* to be handed over.
C13_DrainBeforeConnected ==
  [][\A c \in JClients :
       /\ (jHandler[c] = "idle" /\ jHandler'[c] = "ready") =>
            (db'.status = "CONNECTED" /\ db'.retries = 0 /\ jUnread = 0)
       /\ (jHandler[c] = "ready" /\ jHandler'[c] = "sync") => jUnread = 0]_vars

\* no handler, logout or credential write of the whaileys provider is under way
WQuiescent ==
  /\ logoutPc = "idle"
  /\ \A s \in Socks : handler[s] \in {"idle", "sleep"}
  /\ inflight = {}

\* C14 (as claimed): once every handler has run to its end, the status the
\* observers were last notified of is the stored status.
C14_StatusNotified ==
  WQuiescent => notified.status = db.status

\* C15: each qr event stores a new code with status qrcode before anything is
\* broadcast, and the handler then notifies the observers of the stored record;
\* so it is for a rotated code as for the first.
C15_QrPersistedThenNotified ==
  [][\A c \in JClients :
       /\ (jHandler[c] = "idle" /\ jHandler'[c] = "qr") =>
            /\ db'.status = "qrcode"
            /\ db'.qrcode \in 1..MaxQr /\ db'.qrcode # db.qrcode
            /\ notified' = notified
       /\ (jHandler[c] = "qr" /\ jHandler'[c] = "idle") =>
            /\ notified'.status = db.status
            /\ notified'.qrcode = db.qrcode]_vars

\* the second code was stored and the observers were notified of it
C15_Witness ==
  /\ db.status = "qrcode" /\ db.qrcode = 2
  /\ notified = [status |-> "qrcode", qrcode |-> 2]
  /\ \E c \in JClients : jClient[c] = "qr" /\ jHandler[c] = "idle" /\ jSessions = c

\* C16 (as claimed): an auth_failure handler that found the counter at or below
\* the threshold ends with the counter one higher and the session kept; one
\* that found it above ends with the session wiped and the counter at 0.
C16_RetriesThenWipe ==
  [][\A c \in JClients :
       /\ (jHandler[c] = "auth" /\ jHandler'[c] = "idle") =>
            (db'.retries = db.retries + 1 /\ db'.session = db.session)
       /\ (jHandler[c] = "auth_wiped" /\ jHandler'[c] = "idle") =>
            (db'.session = 0 /\ db'.retries = 0)]_vars

\* C17 (as claimed): a sendMessage or sendMedia called while no socket of the
\* connection is live fails with ERR_WAPP_NOT_INITIALIZED and sends nothing.
C17_NotInitialized ==
  (ret.op \in {"sendMessage", "sendMedia"} /\ ~ret.live) =>
    (ret.error = "ERR_WAPP_NOT_INITIALIZED" /\ ~ret.sent)

\* C18 (as claimed): a sendMessage or sendMedia that succeeded returned
\* fromMe = true and an ack of at least 1.
C18_SentAckAtLeastOne ==
  (ret.op \in {"sendMessage", "sendMedia"} /\ ret.error = "") =>
    (ret.fromMe /\ ret.ack >= 1)

\* C19 (as claimed): for a number with no account, checkNumber throws
\* ERR_NUMBER_NOT_ON_WHATSAPP and CheckIsValidContact reports an error other
\* than the one it reports when the lookup itself fails.
C19_NotRegisteredDistinct ==
  (ret.op = "CheckIsValidContact" /\ ret.net = "absent") =>
    /\ ret.inner = Throw("ERR_NUMBER_NOT_ON_WHATSAPP")
    /\ ret.error # CheckIsValidContact(Throw("network"))

\* the n most recent messages of a store kept oldest first
MostRecent(st, n) ==
  SubSeq(st, Len(st) - (IF n < Len(st) THEN n ELSE Len(st)) + 1, Len(st))

\* C20 (as claimed): fetchChatMessages returns at most limit messages, the
\* limit most recent ones of the store, for every limit >= 0.
C20_AtMostLimitMostRecent ==
  (ret.op = "fetchChatMessages" /\ ret.error = "") =>
    /\ Len(ret.result) <= ret.limit
    /\ ret.result = MostRecent(ret.store, ret.limit)

\* C21 (as claimed): no handleMessageAck call lowers the ack level stored for
\* the message, whatever the order of the status and receipt events.
C21_AckNeverLowered == [][msgAck' >= msgAck]_vars

\* the library's statuses PENDING, SERVER_ACK, DELIVERY_ACK, READ in order
ProviderSequence == <<1, 2, 3, 4>>

\* C22 (as claimed): while the events of the message are the provider sequence
\* pending, server-received, delivered, read, the levels handed to
\* handleMessageAck are 0, 1, 2, 3 in that order.
C22_LevelsInOrder ==
  (\A i \in DOMAIN ackEvents :
     /\ ackEvents[i].kind = "messages.update" /\ ackEvents[i].hasId
     /\ ackEvents[i].status = ProviderSequence[i])
  => \A i \in DOMAIN ackEvents : ackEvents[i].ack = i - 1

\* C23: a receipt with a message id is handed on with level 4 if it has a
\* played timestamp, else 3 if it has a read timestamp, else 2; a receipt
\* without a message id makes no handleMessageAck call.
C23_ReceiptHighestLevel ==
  \A i \in DOMAIN ackEvents :
    ackEvents[i].kind = "message-receipt.update" =>
      IF ackEvents[i].hasId
        THEN /\ ackEvents[i].pc # "dropped"
             /\ ackEvents[i].ack =
                  (IF "playedTimestamp" \in ackEvents[i].receipt THEN 4
                   ELSE IF "readTimestamp" \in ackEvents[i].receipt THEN 3
                   ELSE 2)
      ELSE ackEvents[i].pc = "dropped" /\ ackEvents[i].ack = -1

\* a receipt with both a read and a played timestamp was applied to the row,
\* and a receipt without an id was dropped
C23_Witness ==
  \E i, j \in DOMAIN ackEvents :
    /\ ackEvents[i].kind = "message-receipt.update" /\ ackEvents[i].hasId
    /\ {"readTimestamp", "playedTimestamp"} \subseteq ackEvents[i].receipt
    /\ ackEvents[i].pc = "done" /\ msgAck = 4
    /\ ackEvents[j].kind = "message-receipt.update" /\ ~ackEvents[j].hasId
    /\ ackEvents[j].pc = "dropped"

\* the message of the last event was handed to handleMessage
Handed(i) == \E pl \in inb.handed : pl.of = i

\* C24 (as claimed): a message addressed to status@broadcast is never handed
\* to handleMessage; a self-sent plain-text message is; a self-sent sticker
\* with no media flag is not.
C24_Filtering ==
  \A i \in DOMAIN inb.msgs :
    LET msg == inb.msgs[i] IN
    inb.event = "message_create" =>
      /\ ("status@broadcast" \in {msg.from, msg.to}) => ~Handed(i)
      /\ (msg.fromMe /\ msg.type = "chat" /\ ~msg.lrm /\ inb.fails[i] = "none"
            /\ msg.to # "status@broadcast") => Handed(i)
      /\ (msg.fromMe /\ msg.type = "sticker" /\ ~msg.hasMedia) => ~Handed(i)

\* C25 (as claimed): a self-sent message of a supported type whose body does
\* not start with U+200E passes the filter exactly if it carries media or its
\* canonical type is location, chat or vcard.
C25_FromMeAllowList ==
  \A i \in DOMAIN inb.msgs :
    LET msg == inb.msgs[i] IN
    (inb.event = "messages.upsert" /\ msg.fromMe /\ ~msg.lrm
       /\ msg.contentType \notin {"protocolMessage", "none"}) =>
      (i \in inb.valid <=>
         (hasMedia(msg) \/ mapMessageType(msg) \in {"location", "chat", "vcard"}))

\* C26 (as claimed): the body of a location payload has two fields, the map
\* link first and the description (or "latitude, longitude") second.
C26_LocationLinkFirst ==
  \A pl \in inb.handed :
    pl.type = "location" =>
      /\ Len(pl.body) = 2
      /\ pl.body[1] = "gmapsUrl"
      /\ pl.body[2] = (IF inb.msgs[pl.of].named THEN "description"
                       ELSE "latitude, longitude")

\* the jids in the routing fields of a message's key
RoutingJids(msg) == {msg.remoteJid, msg.senderPn, msg.participantPn, msg.senderLid}

\* C27 (as claimed): when the key of a handed message holds a phone-number
\* jid and a lid, the contact's number is the phone number and its lid field
\* is the lid.
C27_PhonePreferredLidCarried ==
  \A pl \in inb.handed :
    LET msg == inb.msgs[pl.of] IN
    (inb.event = "messages.upsert" /\ msg.remoteJid # GroupJid
       /\ {PnJid, LidJid} \subseteq RoutingJids(msg)) =>
      (pl.contact.number = PnJid.user /\ pl.contact.lid = LidJid)

\* C28 (as claimed): when the key of a handed message holds a lid and no
\* phone-number jid, the contact's lid field is the lid and its number is not
\* taken from the lid.
C28_OpaqueOnly ==
  \A pl \in inb.handed :
    LET msg == inb.msgs[pl.of] IN
    (inb.event = "messages.upsert" /\ msg.remoteJid = LidJid
       /\ PnJid \notin RoutingJids(msg)) =>
      (pl.contact.lid = LidJid /\ pl.contact.number # LidJid.user)

\* C29 (as claimed): a valid message with media whose download fails is still
\* handed to handleMessage, with no media payload.
C29_DownloadFailureDelivered ==
  \A i \in inb.valid :
    (inb.msgs[i].hasMedia /\ inb.fails[i] = "download"
       /\ \A j \in DOMAIN inb.msgs : j # i => inb.fails[j] = "none") =>
      \E pl \in inb.handed : pl.of = i /\ pl.media = "absent"

\* C30 (as claimed): a valid message that does not fail itself is handed to
\* handleMessage, whatever fails for the other messages of the event.
C30_FailureIsolated ==
  \A i \in inb.valid : inb.fails[i] = "none" => Handed(i)

\* C7 (as claimed): key records are unique on (connectionId, deviceId, type,
\* keyId): a set for a durable type under one deviceId changes nothing of what
\* a get for the same connectionId, type and keyId returns under another
\* deviceId.
C7_FourTupleUnique ==
  [][\A c \in ConnIds, d \in DeviceIds, t \in DurableTypes, i \in KeyIds, v \in Vals :
       StoreWppSessionKeys(c, d, t, i, v) =>
         \A d2 \in DeviceIds \ {d} :
           GetWppSessionKeys(c, d2, t, {i})' = GetWppSessionKeys(c, d2, t, {i})]_vars

\* C8: after set(connectionId, deviceId, "identity-key", "k1", V) a get of
\* ["k1"] for the same connection, device and type returns exactly {k1: V};
\* an id that was never written is absent from every mapping get returns.
C8_RoundTrip ==
  /\ (lastSet # None /\ lastSet.type \in DurableTypes) =>
       GetLastSet = [i \in {lastSet.id} |-> lastSet.value]
  /\ \A c \in ConnIds, d \in DeviceIds, t \in Types :
       DOMAIN GetWppSessionKeys(c, d, t, KeyIds) \subseteq WrittenIds

C8_Witness ==
  /\ lastSet # None
  /\ lastSet.type = "identity-key" /\ lastSet.id = "k1" /\ lastSet.value = BufVal(7)
  /\ call.op = "get"
  /\ GetWppSessionKeys(lastSet.connectionId, lastSet.deviceId, "identity-key",
                       {"k1", "k2"}) = [i \in {"k1"} |-> BufVal(7)]

C10_Routing ==
  call.op \in {"set", "get"} =>
    IF call.type \in HotTypes
    THEN call.touched = {"redis"} /\ call.wrote \subseteq {"redis"}
    ELSE call.touched = {"db"} /\ call.wrote \subseteq {"db"}

C10_Witness ==
  /\ call.op = "set" /\ call.type = "sender-key-memory"
  /\ call.touched = {"redis"} /\ call.wrote = {"redis"}
  /\ DOMAIN redis # {} /\ DOMAIN wppKeys # {}

\* no logout and no logout branch of the close handler is in the middle of its
\* removeSession
NoTeardownRunning ==
  logoutPc = "idle" /\ \A s \in Socks : handler[s] \in {"idle", "sleep"}

\* C33 (as claimed): the registry holds an entry for the connection only while
\* the socket of that entry is neither closed nor ended, so getWbot never
\* returns a socket that has reported a close, the reconnect delay included.
C33_RegistryLive ==
  (sessions # 0 /\ NoTeardownRunning) => sock[sessions] \in WLive

\* steps in which a credential write that is not part of the open branch
\* reaches the table: the save of a fired timer, the flush of removeSession
DebouncedWriteLands == \E v \in inflight : inflight' = inflight \ {v}
RemoveSessionFlushes ==
  /\ pendingCredsSaves # 0
  /\ \/ logoutPc = "rm" /\ logoutPc' # "rm"
     \/ \E s \in Socks : handler[s] \in {"lo_rm", "il_rm"} /\ handler'[s] # handler[s]

\* C34 (as claimed): a debounced or flushed credential write leaves the stored
\* status and QR code as they are, and the stored status becomes CONNECTED
\* only in the step of a connection-open event.
C34_CredentialWriteFrame ==
  [][/\ (DebouncedWriteLands \/ RemoveSessionFlushes) =>
          (db'.status = db.status /\ db'.qrcode = db.qrcode)
     /\ (db.status # "CONNECTED" /\ db'.status = "CONNECTED") => OpenConnected]_vars

\* nothing of the whaileys provider is left to run for the connection
NothingLeftToRun ==
  /\ inflight = {} /\ credsDebounceTimers = 0
  /\ NoLiveSocket
  /\ \A s \in Socks : handler[s] = "idle"

\* C35 (as claimed): once logout has returned, with no session started
\* meanwhile, and every write in flight has settled, the stored session is
\* empty and the stored status is DISCONNECTED, in every interleaving of the
\* debounce timer, the close handler and logout.
C35_NoWriteAfterLogout ==
  [][(LogoutReturns /\ "logout" \in undisturbed /\ NothingLeftToRun) =>
       (db'.session = 0 /\ db'.status = "DISCONNECTED")]_vars

\* C36: a debounce timer is registered exactly when a pending credential value
\* is recorded, and the one registered timer is the one of the last value.
C36_TimerIffPending ==
  /\ (credsDebounceTimers # 0) <=> (pendingCredsSaves # 0)
  /\ credsDebounceTimers = pendingCredsSaves

\* a second creds.update replaced the timer of the first
C36_Witness ==
  /\ credsDebounceTimers = 2 /\ pendingCredsSaves = 2
  /\ burst = 2 /\ saves = 0

\* a teardown ends socket s: init's assertUnique or removeSession took the
\* listener off and ended it
TeardownEnds(s) == sock[s] \in WLive /\ sock'[s] = "closed" /\ lst'[s] # "all"

\* C37: the step that tears a socket down starts no reconnect delay for it
\* and writes OPENING only as StartWhatsAppSession's own write; a socket torn
\* down starts none later; a reconnect delay starts only at the close of a
\* socket that was live with its listener on; an init tears the registered
\* live socket down in the step that creates the new one.
C37_TeardownNoReconnect ==
  [][\A s \in Socks :
       /\ TeardownEnds(s) =>
            /\ handler'[s] = handler[s] /\ sleeping'[s] = sleeping[s]
            /\ (db'.status = "OPENING" /\ db.status # "OPENING") =>
                 (NewSocket /\ handler' = handler)
       /\ (sock[s] = "closed" /\ lst[s] # "all" /\ handler[s] # "sleep") =>
            handler'[s] # "sleep"
       /\ (handler[s] # "sleep" /\ handler'[s] = "sleep") =>
            (sock[s] \in WLive /\ lst[s] = "all")
       /\ (NewSocket /\ sessions = s /\ sock[s] \in WLive) => TeardownEnds(s)]_vars

\* a live registered socket was replaced by init and is closed with no
\* reconnect waiting
C37_Witness ==
  \E s \in Socks :
    /\ sock[s] = "closed" /\ lst[s] = "noconn" /\ handler[s] = "idle"
    /\ sessions # s /\ sessions # 0 /\ sock[sessions] \in WLive
    /\ db.status = "OPENING"

\* C38: under fair scheduling the handler of a transient close leaves its
\* delay with a call of init, which creates a new socket or client for the
\* same connection id.
C38_ReconnectEventually ==
  /\ \A s \in Socks :
       (handler[s] = "sleep") ~>
         (handler[s] = "idle" /\ \E t \in Socks : t > s /\ sock[t] # "none")
  /\ \A c \in JClients :
       (jHandler[c] = "sleep") ~>
         (jHandler[c] = "idle" /\ \E t \in JClients : t > c /\ jClient[t] # "none")

\* a transient close was handled: OPENING, no socket live, the delay running
C38_Witness ==
  \E s \in Socks :
    /\ handler[s] = "sleep" /\ sleeping[s] = ReconnectDelayMs
    /\ db.status = "OPENING" /\ NoLiveSocket

\* C39: after clearSessionKeys for a connection, every hot key that was stored
\* under another connection id can still be read with the value it had, also
\* when one id is a decimal prefix of the other; with a Redis client no hot
\* key of the purged connection is left.
C39_PurgeIsolation ==
  call.op = "clearSessionKeys" =>
    /\ \A b \in ConnIds \ {call.sessionId}, d \in DeviceIds, t \in HotTypes, i \in KeyIds :
         RedisKeyOf(b, d, t, i) \in DOMAIN call.before =>
           GetWppSessionKeys(b, d, t, {i}) =
             [x \in {i} |-> JSONparse(call.before[RedisKeyOf(b, d, t, i)].value)]
    /\ redisClient => HotKeysOf(call.sessionId) = {}

\* connection 1 was purged while 1 and 10 both held a key: the key of 10 is
\* the one left
C39_Witness ==
  /\ call.op = "clearSessionKeys" /\ call.sessionId = 1
  /\ DOMAIN call.before = {RedisKeyOf(1, 1, "session", "k1"), RedisKeyOf(10, 1, "session", "k1")}
  /\ DOMAIN redis = {RedisKeyOf(10, 1, "session", "k1")}

\* C31 (as claimed): over the upsert events of a connection, no message id is
\* handed to handleMessage twice, also when the message came in two events.
C31_HandedOnce ==
  \A i, j \in DOMAIN inb.log :
    (inb.log[i] = inb.log[j] /\ inb.log[i] # 0) => i = j

AllReturned ==
  hm.pc # <<>> /\ \A p \in DOMAIN hm.pc : hm.pc[p] \in {"done", "failed"}

\* C32 (as claimed): when the handleMessage calls of distinct messages that
\* ran side by side have returned, every message is stored, and the Contacts
\* rows and the stored messages are those of running the calls one after the
\* other in some order, also for two messages of one unknown sender.
C32_ConcurrentAsSequential ==
  AllReturned =>
    /\ \A p \in DOMAIN hm.pc : hm.pc[p] = "done"
    /\ \E order \in {<<1, 2>>, <<2, 1>>} :
         LET seq == OneAfterTheOther(hm.known, {}, hm.number, order)
         IN hm.contacts = seq.contacts /\ hm.messages = seq.messages

====
